---- MODULE Spec2Model ----
(***************************************************************************)
(* pino-file-transport: the rotation lock, the worker lease, the rotation  *)
(* engine (FileTransport) and the archive / retention workers, as state    *)
(* machines over one shared log directory.                                 *)
(*                                                                         *)
(* The module holds several specifications over one set of variables; each *)
(* one moves only the variables of its component and leaves the others at  *)
(* their initial value:                                                    *)
(*   SpecLock   several processes running rotate()'s lock protocol         *)
(*   SpecRace   the scenario "all processes call waitForRotationLock at    *)
(*              the same instant, no marker exists", with the 20 ms clock  *)
(*   SpecLease  several processes competing for one worker lease           *)
(*   SpecEngine one FileTransport instance: write(), rotate(),             *)
(*              processPendingWrites(), with the clock and a second        *)
(*              process taking the rotation lock as its environment        *)
(*   SpecArchive runs of runArchiveWorker on one directory, one filesystem *)
(*              call per step                                              *)
(*   SpecRetention one run of runRetentionWorker next to an engine that    *)
(*              has its current file open                                  *)
(***************************************************************************)
EXTENDS Integers, Sequences, FiniteSets, TLC

(***************************************************************************)
(* Bounds of the model                                                     *)
(***************************************************************************)
NProcs == 2
MaxCrashes == 1
MaxAttempt == 2
MaxWrites == 4          \* write() calls in one behaviour of the engine
MaxRotations == 2       \* rotate() calls of one engine in flight at once
MaxFailures == 1        \* rotate() calls of one engine that throw
MaxHourTicks == 1       \* hours the clock advances in one behaviour
FirstHour == 47         \* the hour at which the engine is constructed
SubTicks == 2           \* instants the model tells apart inside one hour
MaxChecks == 1          \* pending staleness-check timers of one process
MaxLogs == 2            \* log files in the directory before the archive runs

(***************************************************************************)
(* Program constants (src/src/config.ts, LOCK_SETTINGS)                    *)
(***************************************************************************)
ROTATION_STALE_MS == 10000
ROTATION_RETRY_MS == 20
ROTATION_MAX_RETRIES == 50
WORKER_STALE_MS == 20000
WORKER_HEARTBEAT_MS == 5000
\* FileTransport.ROTATION_THRESHOLD_PERCENT (0.98), in percent
ROTATION_THRESHOLD_PERCENT == 98
\* the characters that separate the fields of a file name, by code:
\* "." of ".log", "-" and "~" of the overflow name
DOT == 46
DASH == 45
TILDE == 126

Procs == 1..NProcs

VARIABLES
    \* ---- rotation lock (.locks/rotation) ----
    markerExists,   \* the marker directory exists
    markerAge,      \* Date.now() - mtimeMs of the marker, in ms (saturating)
    lpc,            \* per process: position in rotate()'s lock protocol
    tries,          \* per process: loop index i of waitForRotationLock
    gotLock,        \* per process: what waitForRotationLock returned
    crashes,        \* number of process crashes so far
    \* ---- worker lease (.locks/<kind>.json) ----
    kind,           \* the worker kind whose lease file is modelled
    lease,          \* the lease file: NoLease or a WorkerLockData record
    spc,            \* per process: position in tryAcquireWorkerLock
    attempt,        \* per process: the local variable attempt
    wpc,            \* per process: its worker of this kind ("none", "running")
    hbOn,           \* per process: the heartbeat interval is set
    hpc,            \* per process: position in updateWorkerHeartbeat
    hbData,         \* per process: lockData read by updateWorkerHeartbeat
    wcrashes,       \* number of process crashes so far
    \* ---- clock and log directory ----
    hourNow,        \* Date.now(), in whole hours since 2024-01-01T00:00Z
    subNow,         \* the instant inside the hour
    tz,             \* offset of local time from UTC, in hours
    files,          \* the log directory: file name -> size in bytes
    \* ---- rotation engine (FileTransport) ----
    frequency,      \* options.rotation.frequency
    maxSizeBytes,   \* this.maxSizeBytes
    currentPeriod,  \* this.currentPeriod
    currentFilePath,\* this.currentFilePath
    bytesWritten,   \* this.bytesWritten
    lastDiskSize,   \* this.lastDiskSize
    isRotating,     \* this.isRotating
    pendingWrites,  \* this.pendingWrites
    rotations,      \* the rotate() calls in flight, with their promise chain
    otherHolds,     \* another process is inside rotate() with the lock
    accepted,       \* number of write() calls so far
    appended,       \* the payloads handed to sonicWrite, in order, with file
    periodChanges,  \* the write() calls that found periodChanged, with the key
    failures,       \* the rotate() calls that threw: [n, hour, sub, reason]
    \* ---- archive worker (runArchiveWorker), per process ----
    archiveFrequency, \* options.archive.frequency
    archives,       \* the archive directory: bundle name -> state of the bundle
    logs0,          \* the log files that were there before any run
    apc,            \* position in runArchiveWorker
    asnap,          \* files: the result of readdir
    acur,           \* currentPeriod
    agroups,        \* the keys of filesByPeriod not yet processed
    aname,          \* archiveFullPath
    atodo,          \* the unlink calls of Promise.all not yet made
    aerr,           \* the run has met an I/O error
    acreated,       \* the bundles this run has created
    atouched,       \* the log files this run has bundled or deleted
    \* ---- retention worker (runRetentionWorker) ----
    retentionDuration, \* options.retention.duration, parsed
    rpc,            \* position in runRetentionWorker
    rcutoff,        \* cutoffDate: [hour, sub]
    rtodo,          \* the files of the readdir result not yet looked at
    rdir0,          \* the log files and bundles there before the run
    rsched,         \* the retention scheduler: "off", "noop" or "on"
    \* ---- setup (the default export of the package) ----
    options,        \* the TransportOptions handed to the default export
    setup,          \* [pc, dirExists, schedulers]: how far the setup went
    \* ---- several engines on one directory (FileTransport per process) ----
    procFile,       \* currentFilePath of each process
    procPeriod,     \* currentPeriod of each process
    procStage,      \* "writing", "waiting", "drain" or "done" in rotate("size")
    procNewPath,    \* newPath of each process's rotate()
    procBytes,      \* bytesWritten of each process
    \* ---- worker scheduler (startArchiveScheduler and its timers) ----
    sched,          \* each process's scheduler: "off", "on", "stopped", "dead"
    checks,         \* each process's pending setTimeout of scheduleHeartbeatCheck
    cpc             \* each process's position in checkStaleLock

lockVars == <<markerExists, markerAge, lpc, tries, gotLock, crashes>>
leaseVars == <<kind, lease, spc, attempt, wpc, hbOn, hpc, hbData, wcrashes>>

clockVars == <<hourNow, subNow, tz>>
engineVars == <<frequency, maxSizeBytes, currentPeriod, currentFilePath,
                bytesWritten, lastDiskSize, isRotating, pendingWrites,
                rotations, otherHolds, accepted, appended, periodChanges,
                failures>>

archiveVars == <<archiveFrequency, archives, logs0, apc, asnap, acur, agroups,
                 aname, atodo, aerr, acreated, atouched>>

retentionVars == <<retentionDuration, rpc, rcutoff, rtodo, rdir0, rsched>>

configVars == <<options, setup>>

clusterVars == <<procFile, procPeriod, procStage, procNewPath, procBytes>>

schedVars == <<sched, checks, cpc>>

vars == <<lockVars, leaseVars, clockVars, files, engineVars, archiveVars,
          retentionVars, configVars, schedVars, clusterVars>>

\* what the actions of one component leave alone
nonLockVars == <<leaseVars, clockVars, files, engineVars, archiveVars,
                 retentionVars, configVars, schedVars, clusterVars>>
nonLeaseVars == <<lockVars, clockVars, files, engineVars, archiveVars,
                  retentionVars, configVars, schedVars, clusterVars>>
\* the engine takes and releases the marker of the rotation lock itself;
\* only a rotate() that throws adds to failures
nonEngineVars == <<lpc, tries, gotLock, crashes, leaseVars, archiveVars,
                   retentionVars, configVars, schedVars, clusterVars, failures>>
nonArchiveVars == <<lockVars, leaseVars, clockVars, engineVars, retentionVars,
                    configVars, schedVars, clusterVars>>
\* the retention worker deletes log files and bundles; its scheduler takes
\* the worker lease and the worker gives it back
nonRetentionVars == <<lockVars, clockVars, engineVars, configVars, schedVars, clusterVars,
                      archiveFrequency, logs0, apc, asnap, acur, agroups,
                      aname, atodo, aerr, acreated, atouched>>

(***************************************************************************)
(* The state of each component before anything has run; a specification    *)
(* leaves the components it does not move in this state                    *)
(***************************************************************************)
Kinds == {"archive", "retention"}
NoLease == [pid |-> 0]

LockIdle ==
    /\ markerExists = FALSE
    /\ markerAge = 0
    /\ lpc = [p \in Procs |-> "idle"]
    /\ tries = [p \in Procs |-> 0]
    /\ gotLock = [p \in Procs |-> FALSE]
    /\ crashes = 0

LeaseIdle ==
    /\ kind = "archive"
    /\ lease = NoLease
    /\ spc = [p \in Procs |-> "idle"]
    /\ attempt = [p \in Procs |-> 1]
    /\ wpc = [p \in Procs |-> "none"]
    /\ hbOn = [p \in Procs |-> FALSE]
    /\ hpc = [p \in Procs |-> "idle"]
    /\ hbData = [p \in Procs |-> NoLease]
    /\ wcrashes = 0

\* an empty directory
EmptyDir == [n \in {} |-> 0]

\* the clock stands at 2024-01-02T00:00Z in a UTC process, the log
\* directory is empty
WorldIdle ==
    /\ hourNow = 24
    /\ subNow = 0
    /\ tz = 0
    /\ files = EmptyDir

\* no FileTransport has been constructed
EngineIdle ==
    /\ frequency = "daily"
    /\ maxSizeBytes = 0
    /\ currentPeriod = <<>>
    /\ currentFilePath = <<>>
    /\ bytesWritten = 0
    /\ lastDiskSize = 0
    /\ isRotating = FALSE
    /\ pendingWrites = <<>>
    /\ rotations = <<>>
    /\ otherHolds = FALSE
    /\ accepted = 0
    /\ appended = <<>>
    /\ periodChanges = <<>>
    /\ failures = <<>>

\* no archive worker has run
ArchiveIdle ==
    /\ archiveFrequency = "daily"
    /\ archives = EmptyDir
    /\ logs0 = {}
    /\ apc = [p \in Procs |-> "idle"]
    /\ asnap = [p \in Procs |-> {}]
    /\ acur = [p \in Procs |-> <<>>]
    /\ agroups = [p \in Procs |-> EmptyDir]
    /\ aname = [p \in Procs |-> <<>>]
    /\ atodo = [p \in Procs |-> {}]
    /\ aerr = [p \in Procs |-> FALSE]
    /\ acreated = [p \in Procs |-> {}]
    /\ atouched = [p \in Procs |-> {}]

\* no retention duration, no retention worker has run
NoDuration == [value |-> 0, unit |-> "none"]
RetentionIdle ==
    /\ retentionDuration = NoDuration
    /\ rpc = "idle"
    /\ rcutoff = [hour |-> 0, sub |-> 0]
    /\ rtodo = {}
    /\ rdir0 = [logs |-> {}, bundles |-> {}]
    /\ rsched = "off"

\* the default export has not been called
NoOptions ==
    [path |-> TRUE, rotation |-> "daily", archiveEnabled |-> FALSE,
     archiveFrequency |-> "daily", retentionEnabled |-> FALSE,
     duration |-> NoDuration]
ConfigIdle ==
    /\ options = NoOptions
    /\ setup = [pc |-> "none", dirExists |-> TRUE, schedulers |-> {}]

\* no scheduler has been started
SchedIdle ==
    /\ sched = [p \in Procs |-> "off"]
    /\ checks = [p \in Procs |-> 0]
    /\ cpc = [p \in Procs |-> "idle"]

\* no second engine writes to the directory
ClusterIdle ==
    /\ procFile = [p \in Procs |-> <<>>]
    /\ procPeriod = [p \in Procs |-> <<>>]
    /\ procStage = [p \in Procs |-> "none"]
    /\ procNewPath = [p \in Procs |-> <<>>]
    /\ procBytes = [p \in Procs |-> 0]

(***************************************************************************)
(* Time, period keys and file names.  An instant is a number of hours      *)
(* since 2024-01-01T00:00Z.  A name is the sequence of its fields: the     *)
(* month (standing for the seven characters YYYY-MM), the day of the month *)
(* (for -DD), two-digit numbers, and the characters between them by code.  *)
(* Fields at the same position of two names have the same width, so        *)
(* comparing the sequences field by field is comparing the strings         *)
(* character by character.                                                 *)
(***************************************************************************)

\* first days of the months January..May 2024, in days since 2024-01-01
MonthStarts == <<0, 31, 60, 91, 121>>

\* the month (1 = January 2024) of a day
MonthOf(d) == Cardinality({i \in DOMAIN MonthStarts : MonthStarts[i] <= d})

\* "YYYY-MM-DD" of a day
DateStr(d) == <<MonthOf(d), d - MonthStarts[MonthOf(d)] + 1>>

\* the day of "YYYY-MM-DD": new Date(year, month - 1, day), which carries
\* a day past the end of the month into the next month
DayOf(date) == MonthStarts[date[1]] + date[2] - 1

\* now.toISOString().slice(0, 10)
UTCDate(h) == DateStr(h \div 24)

\* now.getHours()
LocalHours(h, z) == (h + z) % 24

\* "YYYY-MM-DD" or "YYYY-MM-DD~HH"
getCurrentRotationPeriod(freq, h, z) ==
    IF freq = "hourly"
    THEN UTCDate(h) \o <<TILDE, LocalHours(h, z)>>
    ELSE UTCDate(h)

\* `${logDir}/${period}.log`
getLogPath(period) == period \o <<DOT>>

\* `${date}~${hh}-${mm}-${ss}~${ms}.log`; mm-ss~ms is one field, the instant
\* inside the hour
generateOverflowFilename(h, z, sub) ==
    UTCDate(h) \o <<TILDE, LocalHours(h, z), DASH, sub, DOT>>

\* overflowPattern.test(f)
\*   hourly: ^${date}~${hour}-\d{2}-\d{2}.*\.log$
\*   daily:  ^${period}~\d{2}-\d{2}-\d{2}.*\.log$
getOverflowPattern(f, period, freq) ==
    /\ Len(f) = 7
    /\ f[1] = period[1]
    /\ f[2] = period[2]
    /\ f[3] = TILDE
    /\ f[5] = DASH
    /\ freq = "hourly" => f[4] = period[4]

\* getMondayOfWeek(date), date being the instant h: getDay() and setDate()
\* work on the local calendar, toISOString() gives the UTC date of the
\* instant moved by whole days.  2024-01-01 is a Monday.
getMondayOfWeek(h, z) ==
    LET localDate == (h + z) \div 24
        day == (localDate + 1) % 7
        diff == IF day = 0 THEN -6 ELSE 1 - day
    IN  UTCDate(h + 24 * diff)

\* getCurrentArchivePeriod(frequency) at the instant h
getCurrentArchivePeriod(freq, h, z) ==
    CASE freq = "hourly" -> UTCDate(h) \o <<TILDE, LocalHours(h, z)>>
      [] freq = "daily" -> UTCDate(h)
      [] freq = "weekly" -> getMondayOfWeek(h, z)
      [] freq = "monthly" -> <<UTCDate(h)[1]>>

\* getFilePeriod(filename, frequency); new Date(dateStr) is UTC midnight
getFilePeriod(f, freq, z) ==
    LET dateStr == <<f[1], f[2]>>
        hourMatch == Len(f) >= 4 /\ f[3] = TILDE
    IN  CASE freq = "hourly" ->
               IF hourMatch THEN dateStr \o <<TILDE, f[4]>>
               ELSE dateStr \o <<TILDE, 0>>
          [] freq = "daily" -> dateStr
          [] freq = "weekly" -> getMondayOfWeek(24 * DayOf(dateStr), z)
          [] freq = "monthly" -> <<dateStr[1]>>

\* `${period}-archive.tar.gz` (n = 0), `${period}-archive-${n}.tar.gz`
getArchiveFilename(period, n) == [period |-> period, n |-> n]

\* a < b as strings (Array.prototype.sort default order)
NameLess(a, b) ==
    \/ \E i \in 1..Len(a) :
         /\ i <= Len(b)
         /\ \A j \in 1..(i - 1) : a[j] = b[j]
         /\ a[i] < b[i]
    \/ /\ Len(a) < Len(b)
       /\ \A j \in 1..Len(a) : a[j] = b[j]

\* f is the primary file or an overflow file of the period
FileOfPeriod(f, period, freq) ==
    f = getLogPath(period) \/ getOverflowPattern(f, period, freq)

\* getFileSizeSync: the size, 0 when the file cannot be stat'ed
getFileSizeSync(dir, f) == IF f \in DOMAIN dir THEN dir[f] ELSE 0

\* n more bytes at the end of f, which is created if it is missing
AppendBytes(dir, f, n) ==
    [g \in DOMAIN dir \cup {f} |->
        IF g = f THEN getFileSizeSync(dir, f) + n ELSE dir[g]]

(***************************************************************************)
(* Worker lease: tryAcquireWorkerLock / updateWorkerHeartbeat /            *)
(* releaseWorkerLock / startHeartbeat, one filesystem call per step        *)
(***************************************************************************)
\* the ages the model distinguishes, in steps of the heartbeat interval
LeaseAgeCap == WORKER_STALE_MS + WORKER_HEARTBEAT_MS
Older(age) == IF age + WORKER_HEARTBEAT_MS <= LeaseAgeCap
                THEN age + WORKER_HEARTBEAT_MS ELSE age
\* a record as time passes over it; startedAge and hbAge are Date.now()
\* minus startedAt and heartbeat
Aged(rec) == IF rec = NoLease THEN rec
             ELSE [rec EXCEPT !.startedAge = Older(@), !.hbAge = Older(@)]

IsFreshMutant(rec) == rec.hbAge <= LeaseAgeCap
\* tryAcquireWorkerLock: heartbeatAge < LOCK_SETTINGS.WORKER_STALE_MS
IsFresh(rec) == rec.hbAge < WORKER_STALE_MS

NewLeaseMutant(p, att) == [pid |-> p, startedAge |-> 0, hbAge |-> 0, attempt |-> 1]
\* the WorkerLockData written by tryAcquireWorkerLock
NewLease(p, att) == [pid |-> p, startedAge |-> 0, hbAge |-> 0, attempt |-> att]

LeaseInit ==
    /\ kind \in Kinds
    /\ lease = NoLease
    /\ spc = [p \in Procs |-> "idle"]
    /\ attempt = [p \in Procs |-> 1]
    /\ wpc = [p \in Procs |-> "none"]
    /\ hbOn = [p \in Procs |-> FALSE]
    /\ hpc = [p \in Procs |-> "idle"]
    /\ hbData = [p \in Procs |-> NoLease]
    /\ wcrashes = 0

\* tryRunArchive / tryRunRetention is called (run on creation, cron tick,
\* or a stale record found by the periodic check): tryAcquireWorkerLock
\* starts with attempt = 1
TryRun(p) ==
    /\ spc[p] = "idle"
    /\ wpc[p] = "none"
    /\ spc' = [spc EXCEPT ![p] = "exists"]
    /\ attempt' = [attempt EXCEPT ![p] = 1]
    /\ UNCHANGED <<kind, lease, wpc, hbOn, hpc, hbData, wcrashes, nonLeaseVars>>

\* await fileExists(lockPath)
AcquireExists(p) ==
    /\ spc[p] = "exists"
    /\ spc' = [spc EXCEPT ![p] = IF lease = NoLease THEN "write" ELSE "read"]
    /\ UNCHANGED <<kind, lease, attempt, wpc, hbOn, hpc, hbData, wcrashes, nonLeaseVars>>

AfterReadMutant(rec) == "write"
\* where tryAcquireWorkerLock goes after readJsonFile: return null on a
\* fresh record, otherwise on to the creation of the lease
AfterRead(rec) == IF rec # NoLease /\ IsFresh(rec) THEN "idle" ELSE "write"

\* await readJsonFile(lockPath): a fresh record ends the attempt with null;
\* a stale one is taken over with attempt = existingLock.attempt + 1; a
\* record that is gone by now reads as null and the lease is created
AcquireRead(p) ==
    /\ spc[p] = "read"
    /\ lease # NoLease => (IsFresh(lease) \/ lease.attempt < MaxAttempt)
    /\ spc' = [spc EXCEPT ![p] = AfterRead(lease)]
    /\ IF lease # NoLease /\ ~IsFresh(lease)
         THEN attempt' = [attempt EXCEPT ![p] = lease.attempt + 1]
         ELSE UNCHANGED attempt
    /\ UNCHANGED <<kind, lease, wpc, hbOn, hpc, hbData, wcrashes, nonLeaseVars>>

\* await writeJsonFile(lockPath, lockData); the scheduler then spawns the
\* worker, whose first statement is startHeartbeat
AcquireWrite(p) ==
    /\ spc[p] = "write"
    /\ lease' = NewLease(p, attempt[p])
    /\ spc' = [spc EXCEPT ![p] = "idle"]
    /\ wpc' = [wpc EXCEPT ![p] = "running"]
    /\ hbOn' = [hbOn EXCEPT ![p] = TRUE]
    /\ UNCHANGED <<kind, attempt, hpc, hbData, wcrashes, nonLeaseVars>>

\* the heartbeat interval fires: updateWorkerHeartbeat reads the record;
\* if it is gone or has another pid, the interval is cleared
HeartbeatRead(p) ==
    /\ hbOn[p]
    /\ hpc[p] = "idle"
    /\ IF lease = NoLease \/ lease.pid # p
         THEN /\ hbOn' = [hbOn EXCEPT ![p] = FALSE]
              /\ UNCHANGED <<hpc, hbData>>
         ELSE /\ hpc' = [hpc EXCEPT ![p] = "write"]
              /\ hbData' = [hbData EXCEPT ![p] = lease]
              /\ UNCHANGED hbOn
    /\ UNCHANGED <<kind, lease, spc, attempt, wpc, wcrashes, nonLeaseVars>>

\* ... and writes the record it read back with heartbeat = now
HeartbeatWrite(p) ==
    /\ hpc[p] = "write"
    /\ lease' = [hbData[p] EXCEPT !.hbAge = 0]
    /\ hpc' = [hpc EXCEPT ![p] = "idle"]
    /\ hbData' = [hbData EXCEPT ![p] = NoLease]
    /\ UNCHANGED <<kind, spc, attempt, wpc, hbOn, wcrashes, nonLeaseVars>>

\* the worker's run is over (done, nothing to do, or error); finally:
\* clearInterval(heartbeatInterval) and releaseWorkerLock, an unlink
WorkerFinish(p) ==
    /\ wpc[p] = "running"
    /\ wpc' = [wpc EXCEPT ![p] = "none"]
    /\ hbOn' = [hbOn EXCEPT ![p] = FALSE]
    /\ lease' = NoLease
    /\ UNCHANGED <<kind, spc, attempt, hpc, hbData, wcrashes, nonLeaseVars>>

\* the process dies while its worker runs; the lease file stays
WorkerCrash(p) ==
    /\ wpc[p] = "running"
    /\ wcrashes < MaxCrashes
    /\ wcrashes' = wcrashes + 1
    /\ wpc' = [wpc EXCEPT ![p] = "none"]
    /\ hbOn' = [hbOn EXCEPT ![p] = FALSE]
    /\ hpc' = [hpc EXCEPT ![p] = "idle"]
    /\ hbData' = [hbData EXCEPT ![p] = NoLease]
    /\ spc' = [spc EXCEPT ![p] = "idle"]
    /\ UNCHANGED <<kind, lease, attempt, nonLeaseVars>>

\* WORKER_HEARTBEAT_MS pass
LeaseTick ==
    /\ lease # NoLease \/ \E p \in Procs : hbData[p] # NoLease
    /\ lease' = Aged(lease)
    /\ hbData' = [p \in Procs |-> Aged(hbData[p])]
    /\ lease' # lease \/ hbData' # hbData
    /\ UNCHANGED <<kind, spc, attempt, wpc, hbOn, hpc, wcrashes, nonLeaseVars>>

LeaseNext ==
    \/ \E p \in Procs : TryRun(p)
    \/ \E p \in Procs : AcquireExists(p)
    \/ \E p \in Procs : AcquireRead(p)
    \/ \E p \in Procs : AcquireWrite(p)
    \/ \E p \in Procs : HeartbeatRead(p)
    \/ \E p \in Procs : HeartbeatWrite(p)
    \/ \E p \in Procs : WorkerFinish(p)
    \/ \E p \in Procs : WorkerCrash(p)
    \/ LeaseTick

(***************************************************************************)
(* Worker scheduler: startArchiveScheduler / tryRunArchive /               *)
(* scheduleHeartbeatCheck / checkStaleLock and the stop function, on top   *)
(* of the lease.  The retention scheduler has the same three functions.    *)
(* A timer fires at any time after it was set; the cron task fires at any  *)
(* time while it is scheduled.  A process runs one tryRunArchive and one   *)
(* worker at a time, and a heartbeat is one step.                          *)
(***************************************************************************)
nonSchedulerVars == <<lockVars, clockVars, files, engineVars, archiveVars,
                      retentionVars, configVars, clusterVars>>

\* scheduleHeartbeatCheck: one more setTimeout(..., WORKER_CHECK_MS) pending;
\* the model keeps count of MaxChecks of them
scheduleHeartbeatCheck(p) ==
    [checks EXCEPT ![p] = IF @ < MaxChecks THEN @ + 1 ELSE @]

\* checkStaleLock: heartbeatAge > LOCK_SETTINGS.WORKER_STALE_MS
IsStaleLock(rec) == rec # NoLease /\ rec.hbAge > WORKER_STALE_MS

SchedInit ==
    /\ LeaseIdle
    /\ SchedIdle

\* startArchiveScheduler: tryRunArchive at once if runOnCreation, and the
\* cron task
startArchiveScheduler(p) ==
    /\ sched[p] = "off"
    /\ sched' = [sched EXCEPT ![p] = "on"]
    /\ \E runOnCreation \in BOOLEAN :
         spc' = [spc EXCEPT ![p] = IF runOnCreation THEN "exists" ELSE "idle"]
    /\ attempt' = [attempt EXCEPT ![p] = 1]
    /\ UNCHANGED <<kind, lease, wpc, hbOn, hpc, hbData, wcrashes, checks, cpc,
                   nonSchedulerVars>>

\* the cron task fires: tryRunArchive(options)
cronTick(p) ==
    /\ sched[p] = "on"
    /\ spc[p] = "idle"
    /\ spc' = [spc EXCEPT ![p] = "exists"]
    /\ attempt' = [attempt EXCEPT ![p] = 1]
    /\ UNCHANGED <<kind, lease, wpc, hbOn, hpc, hbData, wcrashes, schedVars,
                   nonSchedulerVars>>

\* tryRunArchive after tryAcquireWorkerLock's readJsonFile: on a fresh record
\* lockData is null, nothing is spawned and scheduleHeartbeatCheck is called
tryRunArchiveRead(p) ==
    /\ spc[p] = "read"
    /\ lease # NoLease => (IsFresh(lease) \/ lease.attempt < MaxAttempt)
    /\ spc' = [spc EXCEPT ![p] = AfterRead(lease)]
    /\ IF lease # NoLease /\ ~IsFresh(lease)
         THEN attempt' = [attempt EXCEPT ![p] = lease.attempt + 1]
         ELSE UNCHANGED attempt
    /\ checks' = IF AfterRead(lease) = "idle"
                   THEN scheduleHeartbeatCheck(p) ELSE checks
    /\ UNCHANGED <<kind, lease, wpc, hbOn, hpc, hbData, wcrashes, sched, cpc,
                   nonSchedulerVars>>

\* tryRunArchive after tryAcquireWorkerLock's writeJsonFile: lockData is the
\* record; spawnArchiveWorker, in which new Worker() may throw (the error is
\* caught and logged); then scheduleHeartbeatCheck
tryRunArchiveWrite(p) ==
    /\ spc[p] = "write"
    /\ lease' = NewLease(p, attempt[p])
    /\ spc' = [spc EXCEPT ![p] = "idle"]
    /\ \E spawned \in BOOLEAN :
         IF spawned
           THEN /\ wpc' = [wpc EXCEPT ![p] = "running"]
                /\ hbOn' = [hbOn EXCEPT ![p] = TRUE]
           ELSE UNCHANGED <<wpc, hbOn>>
    /\ checks' = scheduleHeartbeatCheck(p)
    /\ UNCHANGED <<kind, attempt, hpc, hbData, wcrashes, sched, cpc,
                   nonSchedulerVars>>

\* a timer of scheduleHeartbeatCheck fires: checkStaleLock is called
checkFires(p) ==
    /\ checks[p] > 0
    /\ cpc[p] = "idle"
    /\ checks' = [checks EXCEPT ![p] = @ - 1]
    /\ cpc' = [cpc EXCEPT ![p] = "exists"]
    /\ UNCHANGED <<leaseVars, sched, nonSchedulerVars>>

\* checkStaleLock: await fileExists(lockPath); no file, no stale lock
checkStaleExists(p) ==
    /\ cpc[p] = "exists"
    /\ cpc' = [cpc EXCEPT ![p] = IF lease = NoLease THEN "idle" ELSE "read"]
    /\ UNCHANGED <<leaseVars, sched, checks, nonSchedulerVars>>

\* checkStaleLock: await readJsonFile(lockPath); on a stale record the timer
\* callback calls tryRunArchive, otherwise it is over
checkStaleRead(p) ==
    /\ cpc[p] = "read"
    /\ IsStaleLock(lease) => spc[p] = "idle"
    /\ cpc' = [cpc EXCEPT ![p] = "idle"]
    /\ IF IsStaleLock(lease)
         THEN /\ spc' = [spc EXCEPT ![p] = "exists"]
              /\ attempt' = [attempt EXCEPT ![p] = 1]
         ELSE UNCHANGED <<spc, attempt>>
    /\ UNCHANGED <<kind, lease, wpc, hbOn, hpc, hbData, wcrashes, sched, checks,
                   nonSchedulerVars>>

\* the function returned by startArchiveScheduler: task.stop()
stopScheduler(p) ==
    /\ sched[p] = "on"
    /\ sched' = [sched EXCEPT ![p] = "stopped"]
    /\ UNCHANGED <<leaseVars, checks, cpc, nonSchedulerVars>>

\* the process dies: its worker, its timers and its scheduler are gone, the
\* lease file stays
processDies(p) ==
    /\ sched[p] = "on"
    /\ wcrashes < MaxCrashes
    /\ wcrashes' = wcrashes + 1
    /\ wpc' = [wpc EXCEPT ![p] = "none"]
    /\ hbOn' = [hbOn EXCEPT ![p] = FALSE]
    /\ hpc' = [hpc EXCEPT ![p] = "idle"]
    /\ hbData' = [hbData EXCEPT ![p] = NoLease]
    /\ spc' = [spc EXCEPT ![p] = "idle"]
    /\ sched' = [sched EXCEPT ![p] = "dead"]
    /\ checks' = [checks EXCEPT ![p] = 0]
    /\ cpc' = [cpc EXCEPT ![p] = "idle"]
    /\ UNCHANGED <<kind, lease, attempt, nonSchedulerVars>>

\* the worker's heartbeat interval fires and updateWorkerHeartbeat runs, here
\* without another process's step between its read and its write
workerHeartbeat(p) ==
    /\ hbOn[p]
    /\ hpc[p] = "idle"
    /\ IF lease = NoLease \/ lease.pid # p
         THEN /\ hbOn' = [hbOn EXCEPT ![p] = FALSE]
              /\ UNCHANGED lease
         ELSE /\ lease' = [lease EXCEPT !.hbAge = 0]
              /\ lease' # lease
              /\ UNCHANGED hbOn
    /\ UNCHANGED <<kind, spc, attempt, wpc, hpc, hbData, wcrashes, schedVars,
                   nonSchedulerVars>>

SchedNext ==
    \/ \E p \in Procs : startArchiveScheduler(p)
    \/ \E p \in Procs : cronTick(p)
    \/ \E p \in Procs : AcquireExists(p)
    \/ \E p \in Procs : tryRunArchiveRead(p)
    \/ \E p \in Procs : tryRunArchiveWrite(p)
    \/ \E p \in Procs : checkFires(p)
    \/ \E p \in Procs : checkStaleExists(p)
    \/ \E p \in Procs : checkStaleRead(p)
    \/ \E p \in Procs : stopScheduler(p)
    \/ \E p \in Procs : processDies(p)
    \/ \E p \in Procs : workerHeartbeat(p)
    \/ \E p \in Procs : WorkerFinish(p)
    \/ LeaseTick

(***************************************************************************)
(* Rotation lock: tryAcquireRotationLock / waitForRotationLock /           *)
(* releaseRotationLock, one filesystem call per step                       *)
(***************************************************************************)

\* the largest age the model distinguishes: anything above the threshold
AgeCap == ROTATION_STALE_MS + ROTATION_RETRY_MS

\* lockAge > LOCK_SETTINGS.ROTATION_STALE_MS
IsStaleMutant(age) == age > AgeCap
IsStale(age) == age > ROTATION_STALE_MS

RetriesExhaustedMutant(i) == i >= ROTATION_MAX_RETRIES - 1
\* the for loop of waitForRotationLock ends: !(i < ROTATION_MAX_RETRIES)
RetriesExhausted(i) == i >= ROTATION_MAX_RETRIES

\* rotate() is entered: waitForRotationLock starts with i = 0
StartRotate(p) ==
    /\ lpc[p] = "idle"
    /\ lpc' = [lpc EXCEPT ![p] = "stat"]
    /\ tries' = [tries EXCEPT ![p] = 0]
    /\ gotLock' = [gotLock EXCEPT ![p] = FALSE]
    /\ UNCHANGED <<markerExists, markerAge, crashes, nonLockVars>>

\* fs.statSync(lockPath): a stale marker is to be removed, otherwise (fresh,
\* or absent: statSync throws into the inner catch) go on to mkdirSync
StatMarker(p) ==
    /\ lpc[p] = "stat"
    /\ lpc' = [lpc EXCEPT ![p] =
                 IF markerExists /\ IsStale(markerAge) THEN "rmdir" ELSE "mkdir"]
    /\ UNCHANGED <<markerExists, markerAge, tries, gotLock, crashes, nonLockVars>>

\* fs.rmdirSync(lockPath) of the stale branch; if the marker is gone the
\* call throws into the inner catch; either way mkdirSync is next
RemoveStale(p) ==
    /\ lpc[p] = "rmdir"
    /\ markerExists' = FALSE
    /\ markerAge' = 0
    /\ lpc' = [lpc EXCEPT ![p] = "mkdir"]
    /\ UNCHANGED <<tries, gotLock, crashes, nonLockVars>>

\* fs.mkdirSync(lockPath): atomic create-if-absent. Success: return true,
\* waitForRotationLock returns true and rotate()'s body runs. EEXIST:
\* return false, and waitForRotationLock awaits the retry timer.
MakeMarker(p) ==
    /\ lpc[p] = "mkdir"
    /\ IF markerExists
         THEN /\ lpc' = [lpc EXCEPT ![p] = "sleep"]
              /\ UNCHANGED <<markerExists, markerAge, gotLock>>
         ELSE /\ markerExists' = TRUE
              /\ markerAge' = 0
              /\ gotLock' = [gotLock EXCEPT ![p] = TRUE]
              /\ lpc' = [lpc EXCEPT ![p] = "body"]
    /\ UNCHANGED <<tries, crashes, nonLockVars>>

\* the retry timer fired: i++, then either the next attempt or, the loop
\* being over, waitForRotationLock returns false and rotate() goes on
\* without the lock
AfterSleepPc(p) == IF RetriesExhausted(tries[p] + 1) THEN "body" ELSE "stat"

WakeUp(p) ==
    /\ lpc[p] = "sleep"
    /\ tries' = [tries EXCEPT ![p] = tries[p] + 1]
    /\ lpc' = [lpc EXCEPT ![p] = AfterSleepPc(p)]
    /\ UNCHANGED <<markerExists, markerAge, gotLock, crashes, nonLockVars>>

\* rotate()'s try block is over (switched, aborted or thrown); the finally
\* block: if (gotLock) releaseRotationLock(), an rmdirSync whose error is
\* swallowed
FinishRotate(p) ==
    /\ lpc[p] = "body"
    /\ IF gotLock[p]
         THEN /\ markerExists' = FALSE
              /\ markerAge' = 0
         ELSE UNCHANGED <<markerExists, markerAge>>
    /\ lpc' = [lpc EXCEPT ![p] = "idle"]
    /\ UNCHANGED <<tries, gotLock, crashes, nonLockVars>>

\* more than ROTATION_STALE_MS pass since the marker was last modified
MarkerAges ==
    /\ markerExists
    /\ markerAge < AgeCap
    /\ markerAge' = AgeCap
    /\ UNCHANGED <<markerExists, lpc, tries, gotLock, crashes, nonLockVars>>

\* the process dies inside rotate(); nothing it created is cleaned up
Crash(p) ==
    /\ lpc[p] \in {"stat", "rmdir", "mkdir", "sleep", "body"}
    /\ crashes < MaxCrashes
    /\ crashes' = crashes + 1
    /\ lpc' = [lpc EXCEPT ![p] = "dead"]
    /\ UNCHANGED <<markerExists, markerAge, tries, gotLock, nonLockVars>>

\* the cluster manager starts a new process in place of the dead one
Restart(p) ==
    /\ lpc[p] = "dead"
    /\ lpc' = [lpc EXCEPT ![p] = "idle"]
    /\ tries' = [tries EXCEPT ![p] = 0]
    /\ gotLock' = [gotLock EXCEPT ![p] = FALSE]
    /\ UNCHANGED <<markerExists, markerAge, crashes, nonLockVars>>

LockNext ==
    \/ \E p \in Procs : StartRotate(p)
    \/ \E p \in Procs : StatMarker(p)
    \/ \E p \in Procs : RemoveStale(p)
    \/ \E p \in Procs : MakeMarker(p)
    \/ \E p \in Procs : WakeUp(p)
    \/ \E p \in Procs : FinishRotate(p)
    \/ \E p \in Procs : Crash(p)
    \/ \E p \in Procs : Restart(p)
    \/ MarkerAges

\* a process is between a successful acquisition and its own release
HoldsRotationLock(p) == lpc[p] = "body" /\ gotLock[p]

(***************************************************************************)
(* The race scenario: every process calls waitForRotationLock at the same  *)
(* instant, no marker exists; the retry timers run on the 20 ms clock      *)
(***************************************************************************)
RaceInit ==
    /\ markerExists = FALSE
    /\ markerAge = 0
    /\ lpc = [p \in Procs |-> "stat"]
    /\ tries = [p \in Procs |-> 0]
    /\ gotLock = [p \in Procs |-> FALSE]
    /\ crashes = 0

\* ROTATION_RETRY_MS pass: every pending retry timer fires, the marker is
\* that much older. The synchronous filesystem calls take no time.
Tick ==
    /\ \A p \in Procs : lpc[p] \notin {"stat", "rmdir", "mkdir"}
    /\ \E p \in Procs : lpc[p] = "sleep"
    /\ tries' = [p \in Procs |-> IF lpc[p] = "sleep" THEN tries[p] + 1 ELSE tries[p]]
    /\ lpc' = [p \in Procs |-> IF lpc[p] = "sleep" THEN AfterSleepPc(p) ELSE lpc[p]]
    /\ markerAge' = IF markerExists /\ markerAge + ROTATION_RETRY_MS <= AgeCap
                      THEN markerAge + ROTATION_RETRY_MS ELSE markerAge
    /\ UNCHANGED <<markerExists, gotLock, crashes, nonLockVars>>

\* the first attempt (i = 0) of process p is over
FirstAttemptOver(p) == tries[p] > 0 \/ lpc[p] \in {"sleep", "body", "idle"}

\* the attempts are simultaneous: no rotation is over before every process
\* has made its first mkdirSync
RaceFinishRotate(p) ==
    /\ \A q \in Procs : FirstAttemptOver(q)
    /\ FinishRotate(p)

RaceNext ==
    \/ \E p \in Procs : StatMarker(p)
    \/ \E p \in Procs : MakeMarker(p)
    \/ \E p \in Procs : RaceFinishRotate(p)
    \/ Tick


(***************************************************************************)
(* Rotation engine: FileTransport.  One engine instance; an action is one  *)
(* run of its code between two points at which the event loop may run      *)
(* something else.  A rotate() call in flight is a record of rotations:    *)
(*   chain   "write": started by write(), whose promise chain ends with    *)
(*           .finally(isRotating = false); "replay": started by            *)
(*           processPendingWrites(), whose chain has no .finally           *)
(*   stage   "sleep"  waitForRotationLock waits for its 20 ms timer        *)
(*           "body"   waitForRotationLock has settled                      *)
(*           "drain"  the body waits for the buffer to drain               *)
(*           "replay" rotate() has returned, .then(processPendingWrites)   *)
(*                    is next                                              *)
(*   macro   the wait of stage "drain" is for a 'drain' event (TRUE) or    *)
(*           for an already resolved promise (FALSE)                       *)
(* A timer, a 'drain' event and a write() call run only when no promise    *)
(* continuation is ready (the microtask queue is empty); the clock and the *)
(* other process do not wait for that.  Bytes handed to sonicWrite are in  *)
(* the file at once.                                                       *)
(***************************************************************************)

\* payload texts and Buffer.byteLength(line) of each
Texts == {"s", "L"}
LineBytes == [s |-> 1, L |-> 49]
\* the values of options.rotation.maxSize * 1024 * 1024 the model runs with
MaxSizes == {0, 100}
\* sizes of the primary file found by the constructor
FoundSizes == {0, 100}

\* tryAcquireRotationLock as one step: a stale marker is removed, then
\* mkdirSync succeeds iff no marker is left
MarkerFree == ~markerExists \/ IsStale(markerAge)

\* a promise continuation is ready to run
MicroPending ==
    \E i \in DOMAIN rotations :
        \/ rotations[i].stage \in {"body", "replay"}
        \/ rotations[i].stage = "drain" /\ ~rotations[i].macro

RemoveAt(seq, i) == SubSeq(seq, 1, i - 1) \o SubSeq(seq, i + 1, Len(seq))

leastOverflowMutant(overflowFiles) ==
    CHOOSE f \in overflowFiles : \A g \in overflowFiles : g = f \/ NameLess(f, g)
\* overflowFiles.sort().reverse(), then the first file of the loop
greatestOverflow(overflowFiles) ==
    CHOOSE f \in overflowFiles : \A g \in overflowFiles : g = f \/ NameLess(g, f)

findAvailableLogPathMutant(dir, period, current, excludeCurrentFile) ==
    LET mainLogPath == getLogPath(period)
    IN  IF /\ ~(excludeCurrentFile /\ current = mainLogPath)
           /\ (maxSizeBytes = 0 \/ getFileSizeSync(dir, mainLogPath) < maxSizeBytes)
        THEN mainLogPath
        ELSE generateOverflowFilename(hourNow, tz, subNow)
\* findAvailableLogPath(excludeCurrentFile), with this.currentPeriod = period
findAvailableLogPath(dir, period, current, excludeCurrentFile) ==
    LET mainLogPath == getLogPath(period)
        hasRoom(f) == maxSizeBytes = 0 \/ getFileSizeSync(dir, f) < maxSizeBytes
        mainOk == /\ ~(excludeCurrentFile /\ current = mainLogPath)
                  /\ hasRoom(mainLogPath)
        overflowFiles ==
            {f \in DOMAIN dir :
                /\ getOverflowPattern(f, period, frequency)
                /\ ~(excludeCurrentFile /\ f = current)
                /\ hasRoom(f)}
    IN  IF mainOk THEN mainLogPath
        ELSE IF overflowFiles # {}
        THEN greatestOverflow(overflowFiles)
        ELSE generateOverflowFilename(hourNow, tz, subNow)

\* rotate(reason) up to the first await: waitForRotationLock has made its
\* first tryAcquireRotationLock
NewRotation(chain, reason) ==
    [chain |-> chain, reason |-> reason,
     stage |-> IF MarkerFree THEN "body" ELSE "sleep",
     gotLock |-> MarkerFree, newPath |-> <<>>, macro |-> FALSE]

\* the marker after that first tryAcquireRotationLock
TakeMarker ==
    IF MarkerFree
    THEN markerExists' = TRUE /\ markerAge' = 0
    ELSE UNCHANGED <<markerExists, markerAge>>

ReleaseMarkerMutant(r) ==
    IF r.gotLock /\ r.stage = "body"
    THEN markerExists' = FALSE /\ markerAge' = 0
    ELSE UNCHANGED <<markerExists, markerAge>>
\* finally { if (gotLock) releaseRotationLock() }
ReleaseMarker(r) ==
    IF r.gotLock
    THEN markerExists' = FALSE /\ markerAge' = 0
    ELSE UNCHANGED <<markerExists, markerAge>>

\* the constructor: period, file, byte estimate; the clock, the directory
\* and the options are given
constructor ==
    /\ currentPeriod = getCurrentRotationPeriod(frequency, hourNow, tz)
    /\ currentFilePath = findAvailableLogPath(files, currentPeriod, <<>>, FALSE)
    /\ bytesWritten = getFileSizeSync(files, currentFilePath)
    /\ lastDiskSize = 0
    /\ isRotating = FALSE
    /\ pendingWrites = <<>>
    /\ rotations = <<>>
    /\ otherHolds = FALSE
    /\ accepted = 0
    /\ appended = <<>>
    /\ periodChanges = <<>>
    /\ failures = <<>>

\* an engine constructed at FirstHour in a UTC process
EngineInit ==
    /\ hourNow = FirstHour
    /\ subNow = 0
    /\ tz = 0
    /\ frequency \in {"daily", "hourly"}
    /\ maxSizeBytes \in MaxSizes
    /\ \E found \in FoundSizes :
         files = IF found = 0 THEN EmptyDir
                 ELSE AppendBytes(EmptyDir,
                          getLogPath(getCurrentRotationPeriod(frequency,
                                                              hourNow, tz)),
                          found)
    /\ constructor
sizeLimitedMutant == TRUE
\* write(): the size checks are made only if (this.maxSizeBytes > 0)
sizeLimited == maxSizeBytes > 0

pushMutant(q, line) == <<line>> \o q
\* this.pendingWrites.push(line)
push(q, line) == Append(q, line)

\* write(data); due: now - lastDiskCheckTime >= nextCheckIntervalMs
write(text, due) ==
    /\ ~MicroPending
    /\ accepted < MaxWrites
    /\ accepted' = accepted + 1
    /\ LET line == [id |-> accepted + 1, text |-> text]
           lineBytes == LineBytes[text]
           period == getCurrentRotationPeriod(frequency, hourNow, tz)
           periodChanged == period # currentPeriod
           checked == sizeLimited /\ due
           actualSize == getFileSizeSync(files, currentFilePath)
           diskExceeded ==
               /\ checked
               /\ \/ actualSize >= maxSizeBytes
                  \/ actualSize * 100 >= maxSizeBytes * ROTATION_THRESHOLD_PERCENT
           estimate == IF checked THEN actualSize ELSE bytesWritten
           sizeExceeded ==
               /\ sizeLimited
               /\ diskExceeded \/ estimate + lineBytes >= maxSizeBytes
       IN  IF isRotating
           THEN /\ pendingWrites' = push(pendingWrites, line)
                /\ UNCHANGED <<bytesWritten, lastDiskSize, isRotating,
                               rotations, appended, files, periodChanges,
                               markerExists, markerAge>>
           ELSE /\ lastDiskSize' = IF checked THEN actualSize ELSE lastDiskSize
                /\ periodChanges' =
                      IF periodChanged
                      THEN Append(periodChanges,
                                  [id |-> line.id, period |-> period])
                      ELSE periodChanges
                /\ IF periodChanged \/ sizeExceeded
                   THEN /\ Len(rotations) < MaxRotations
                        /\ isRotating' = TRUE
                        /\ pendingWrites' = push(pendingWrites, line)
                        /\ rotations' = Append(rotations,
                              NewRotation("write",
                                  IF sizeExceeded THEN "size" ELSE "period"))
                        /\ TakeMarker
                        /\ bytesWritten' = estimate
                        /\ UNCHANGED <<appended, files>>
                   ELSE /\ bytesWritten' = estimate + lineBytes
                        /\ appended' = Append(appended,
                              [id |-> line.id, file |-> currentFilePath])
                        /\ files' = AppendBytes(files, currentFilePath, lineBytes)
                        /\ UNCHANGED <<isRotating, pendingWrites, rotations,
                                       markerExists, markerAge>>
    /\ UNCHANGED <<frequency, maxSizeBytes, currentPeriod, currentFilePath,
                   otherHolds, clockVars, nonEngineVars>>

\* the 20 ms timer of waitForRotationLock fires and tryAcquireRotationLock
\* succeeds (a failing attempt changes nothing and sets the timer again)
retryAcquires(i) ==
    /\ ~MicroPending
    /\ i \in DOMAIN rotations
    /\ rotations[i].stage = "sleep"
    /\ MarkerFree
    /\ markerExists' = TRUE
    /\ markerAge' = 0
    /\ rotations' = [rotations EXCEPT ![i].stage = "body", ![i].gotLock = TRUE]
    /\ UNCHANGED <<frequency, maxSizeBytes, currentPeriod, currentFilePath,
                   bytesWritten, lastDiskSize, isRotating, pendingWrites,
                   otherHolds, accepted, appended, periodChanges, files,
                   clockVars,
                   nonEngineVars>>

\* the marker was there at all ROTATION_MAX_RETRIES attempts:
\* waitForRotationLock returns false and rotate() goes on without the lock
retriesExhausted(i) ==
    /\ ~MicroPending
    /\ i \in DOMAIN rotations
    /\ rotations[i].stage = "sleep"
    /\ ~MarkerFree
    /\ rotations' = [rotations EXCEPT ![i].stage = "body", ![i].gotLock = FALSE]
    /\ UNCHANGED <<markerExists, markerAge,
                   frequency, maxSizeBytes, currentPeriod, currentFilePath,
                   bytesWritten, lastDiskSize, isRotating, pendingWrites,
                   otherHolds, accepted, appended, periodChanges, files,
                   clockVars,
                   nonEngineVars>>

\* rotate() from the lock to the drain promise: period update, recheck,
\* choice of the new path; on an early return the finally block runs
rotate(i) ==
    /\ i \in DOMAIN rotations
    /\ rotations[i].stage = "body"
    /\ LET r == rotations[i]
           period == getCurrentRotationPeriod(frequency, hourNow, tz)
           currentSize == getFileSizeSync(files, currentFilePath)
           hasSpace ==
               /\ r.reason = "size"
               /\ maxSizeBytes > 0
               /\ currentSize * 100 < maxSizeBytes * ROTATION_THRESHOLD_PERCENT
           newPath == findAvailableLogPath(files, period, currentFilePath,
                                           r.reason = "size")
           alreadyBest == newPath = currentFilePath /\ currentSize < maxSizeBytes
       IN  /\ currentPeriod' = period
           /\ IF hasSpace \/ alreadyBest
              THEN /\ bytesWritten' = currentSize
                   /\ lastDiskSize' = currentSize
                   /\ ReleaseMarker(r)
                   /\ rotations' = [rotations EXCEPT ![i].stage = "replay"]
              ELSE /\ \E m \in BOOLEAN :
                        rotations' = [rotations EXCEPT ![i].stage = "drain",
                                                       ![i].newPath = newPath,
                                                       ![i].macro = m]
                   /\ UNCHANGED <<bytesWritten, lastDiskSize,
                                  markerExists, markerAge>>
    /\ UNCHANGED <<frequency, maxSizeBytes, currentFilePath, isRotating,
                   pendingWrites, otherHolds, accepted, appended, files,
                   periodChanges, clockVars, nonEngineVars>>

\* rotate() after the drain promise: the new file is created and opened,
\* the tracking fields follow it, the finally block releases the lock
reopen(i) ==
    /\ i \in DOMAIN rotations
    /\ rotations[i].stage = "drain"
    /\ rotations[i].macro => ~MicroPending
    /\ LET r == rotations[i]
           dir == AppendBytes(files, r.newPath, 0)
       IN  /\ files' = dir
           /\ currentFilePath' = r.newPath
           /\ bytesWritten' = getFileSizeSync(dir, r.newPath)
           /\ lastDiskSize' = getFileSizeSync(dir, r.newPath)
           /\ ReleaseMarker(r)
           /\ rotations' = [rotations EXCEPT ![i].stage = "replay"]
    /\ UNCHANGED <<frequency, maxSizeBytes, currentPeriod, isRotating,
                   pendingWrites, otherHolds, accepted, appended,
                   periodChanges, clockVars, nonEngineVars>>

\* rotate() throws after the drain promise (fs.openSync or sonic.reopen
\* fails): the finally block releases the lock, then() is skipped, catch()
\* logs and, on the chain write() started, finally() clears isRotating
reopenFails(i) ==
    /\ i \in DOMAIN rotations
    /\ rotations[i].stage = "drain"
    /\ rotations[i].macro => ~MicroPending
    /\ Len(failures) < MaxFailures
    /\ failures' = Append(failures,
                          [n |-> accepted, hour |-> hourNow, sub |-> subNow,
                           reason |-> rotations[i].reason])
    /\ ReleaseMarker(rotations[i])
    /\ rotations' = RemoveAt(rotations, i)
    /\ isRotating' = IF rotations[i].chain = "write" THEN FALSE ELSE isRotating
    /\ UNCHANGED <<frequency, maxSizeBytes, currentPeriod, currentFilePath,
                   bytesWritten, lastDiskSize, pendingWrites, otherHolds,
                   accepted, appended, periodChanges, files, clockVars, lpc,
                   tries, gotLock, crashes, leaseVars, archiveVars,
                   retentionVars, configVars, schedVars, clusterVars>>

\* the for loop of processPendingWrites: the index in pending of the first
\* line that does not fit, Len(pending) + 1 if all fit
RECURSIVE FirstUnfit(_, _, _)
FirstUnfit(pending, k, bw) ==
    IF k > Len(pending) THEN k
    ELSE IF maxSizeBytes > 0 /\ bw + LineBytes[pending[k].text] >= maxSizeBytes
    THEN k
    ELSE FirstUnfit(pending, k + 1, bw + LineBytes[pending[k].text])

RECURSIVE SumBytes(_)
SumBytes(lines) ==
    IF lines = <<>> THEN 0
    ELSE LineBytes[Head(lines).text] + SumBytes(Tail(lines))

\* pending.indexOf(line): the first element equal to line as a string
indexOf(pending, line) ==
    CHOOSE j \in 1..Len(pending) :
        /\ pending[j].text = line.text
        /\ \A k \in 1..(j - 1) : pending[k].text # line.text

\* .then(() => this.processPendingWrites()) and, on the chain of write(),
\* .finally(() => { this.isRotating = false })
processPendingWrites(i) ==
    /\ i \in DOMAIN rotations
    /\ rotations[i].stage = "replay"
    /\ LET r == rotations[i]
           pending == pendingWrites
           stop == FirstUnfit(pending, 1, bytesWritten)
           written == SubSeq(pending, 1, stop - 1)
       IN  /\ bytesWritten' = bytesWritten + SumBytes(written)
           /\ files' = IF written = <<>> THEN files
                       ELSE AppendBytes(files, currentFilePath, SumBytes(written))
           /\ appended' = appended \o
                  [k \in 1..Len(written) |->
                      [id |-> written[k].id, file |-> currentFilePath]]
           /\ IF stop <= Len(pending)
              THEN /\ pendingWrites' = SubSeq(pending,
                                           indexOf(pending, pending[stop]),
                                           Len(pending))
                   /\ rotations' = [rotations EXCEPT
                                       ![i] = NewRotation("replay", "size")]
                   /\ TakeMarker
              ELSE /\ pendingWrites' = <<>>
                   /\ rotations' = RemoveAt(rotations, i)
                   /\ UNCHANGED <<markerExists, markerAge>>
           /\ isRotating' = IF r.chain = "write" THEN FALSE ELSE isRotating
    /\ UNCHANGED <<frequency, maxSizeBytes, currentPeriod, currentFilePath,
                   lastDiskSize, otherHolds, accepted, periodChanges,
                   clockVars, nonEngineVars>>

\* ---- environment of the engine ----

\* another process enters its rotate() and takes the lock
otherAcquires ==
    /\ ~otherHolds
    /\ MarkerFree
    /\ otherHolds' = TRUE
    /\ markerExists' = TRUE
    /\ markerAge' = 0
    /\ UNCHANGED <<frequency, maxSizeBytes, currentPeriod, currentFilePath,
                   bytesWritten, lastDiskSize, isRotating, pendingWrites,
                   rotations, accepted, appended, periodChanges, files,
                   clockVars, nonEngineVars>>

\* the other process leaves its rotate(): releaseRotationLock
otherReleases ==
    /\ otherHolds
    /\ otherHolds' = FALSE
    /\ markerExists' = FALSE
    /\ markerAge' = 0
    /\ UNCHANGED <<frequency, maxSizeBytes, currentPeriod, currentFilePath,
                   bytesWritten, lastDiskSize, isRotating, pendingWrites,
                   rotations, accepted, appended, periodChanges, files,
                   clockVars, nonEngineVars>>

\* the clock moves to the next instant of the hour
instantPasses ==
    /\ subNow < SubTicks - 1
    /\ subNow' = subNow + 1
    /\ UNCHANGED <<hourNow, tz, files, engineVars, lockVars, leaseVars,
                   archiveVars, retentionVars, configVars, schedVars, clusterVars>>

\* the clock moves to the next hour
hourPasses ==
    /\ hourNow < FirstHour + MaxHourTicks
    /\ hourNow' = hourNow + 1
    /\ subNow' = 0
    /\ UNCHANGED <<tz, files, engineVars, lockVars, leaseVars, archiveVars,
                   retentionVars, configVars, schedVars, clusterVars>>

EngineNext ==
    \/ \E text \in Texts, due \in BOOLEAN : write(text, due)
    \/ \E i \in 1..MaxRotations : retryAcquires(i)
    \/ \E i \in 1..MaxRotations : retriesExhausted(i)
    \/ \E i \in 1..MaxRotations : rotate(i)
    \/ \E i \in 1..MaxRotations : reopen(i)
    \/ \E i \in 1..MaxRotations : processPendingWrites(i)
    \/ otherAcquires
    \/ otherReleases
    \/ MarkerAges
    \/ instantPasses
    \/ hourPasses

\* the engine with rotations that fail on an I/O error
EngineIONext ==
    \/ EngineNext
    \/ \E i \in 1..MaxRotations : reopenFails(i)

(***************************************************************************)
(* Archive worker: runArchiveWorker, one filesystem call per step.  The    *)
(* worker lease does not keep the runs of two processes apart (see         *)
(* C2_WorkerLeaseExclusive), so each process may start a run at any time.  *)
(* A bundle is [complete, members]: tar creates (or truncates) the file    *)
(* when it opens it and the bundle is complete when tar has packed every   *)
(* member and closed it.                                                   *)
(***************************************************************************)

ArchiveFrequencies == {"hourly", "daily", "weekly", "monthly"}
\* the instants at which the runs happen: Sunday 2024-03-31 23:00Z, Monday
\* 2024-04-01 01:00Z and 12:00Z
ArchiveHours == {90 * 24 + 23, 91 * 24 + 1, 91 * 24 + 12}
\* process time zones: hours east of UTC
TimeZones == {-2, 0, 2}
\* the log files the directory may hold before the runs
LogNames ==
    {<<4, 1, DOT>>, <<3, 31, DOT>>, <<3, 24, DOT>>,
     <<4, 1, TILDE, 1, DOT>>, <<3, 31, TILDE, 23, DOT>>,
     <<3, 31, TILDE, 23, DASH, 0, DOT>>}

UnlinkedMutant(dir, f) == dir
\* fs.unlink(path.join(logDir, f))
Unlinked(dir, f) == [g \in DOMAIN dir \ {f} |-> dir[g]]

filesByPeriodMutant(snap, cur, freq, z) ==
    [k \in {getFilePeriod(f, freq, z) : f \in snap} |->
        {f \in snap : getFilePeriod(f, freq, z) = k}]
\* filesByPeriod after the grouping loop: period key -> files of the
\* snapshot with that key, the files of the current period skipped
filesByPeriod(snap, cur, freq, z) ==
    LET kept == {f \in snap : getFilePeriod(f, freq, z) # cur}
    IN  [k \in {getFilePeriod(f, freq, z) : f \in kept} |->
            {f \in kept : getFilePeriod(f, freq, z) = k}]

\* the first key of Object.keys(filesByPeriod).sort() still to process
NextPeriod(keys) == CHOOSE k \in keys : \A l \in keys : l = k \/ NameLess(k, l)

\* the while loop over fileExists(archiveFullPath): the first free name
FreeArchiveName(period) ==
    LET n == CHOOSE k \in 0..Cardinality(DOMAIN archives) :
                 /\ getArchiveFilename(period, k) \notin DOMAIN archives
                 /\ \A j \in 0..(k - 1) :
                        getArchiveFilename(period, j) \in DOMAIN archives
    IN  getArchiveFilename(period, n)

ArchiveInit ==
    /\ hourNow \in ArchiveHours
    /\ subNow = 0
    /\ tz \in TimeZones
    /\ archiveFrequency \in ArchiveFrequencies
    /\ \E names \in SUBSET LogNames :
         /\ Cardinality(names) <= MaxLogs
         /\ files = [f \in names |-> 1]
         /\ logs0 = names
    /\ archives = EmptyDir
    /\ apc = [p \in Procs |-> "idle"]
    /\ asnap = [p \in Procs |-> {}]
    /\ acur = [p \in Procs |-> <<>>]
    /\ agroups = [p \in Procs |-> EmptyDir]
    /\ aname = [p \in Procs |-> <<>>]
    /\ atodo = [p \in Procs |-> {}]
    /\ aerr = [p \in Procs |-> FALSE]
    /\ acreated = [p \in Procs |-> {}]
    /\ atouched = [p \in Procs |-> {}]

\* the scheduler of process p spawns the worker: runArchiveWorker is entered
spawnArchiveWorker(p) ==
    /\ apc[p] = "idle"
    /\ apc' = [apc EXCEPT ![p] = "readdir"]
    /\ UNCHANGED <<archiveFrequency, archives, logs0, asnap, acur, agroups,
                   aname, atodo, aerr, acreated, atouched, files,
                   nonArchiveVars>>

\* fs.readdir(logDir), getCurrentArchivePeriod, the grouping loop and the
\* two early returns
readdir(p) ==
    /\ apc[p] = "readdir"
    /\ LET snap == DOMAIN files
           cur == getCurrentArchivePeriod(archiveFrequency, hourNow, tz)
           groups == IF snap = {} THEN EmptyDir
                     ELSE filesByPeriod(snap, cur, archiveFrequency, tz)
       IN  /\ asnap' = [asnap EXCEPT ![p] = snap]
           /\ acur' = [acur EXCEPT ![p] = IF snap = {} THEN <<>> ELSE cur]
           /\ agroups' = [agroups EXCEPT ![p] = groups]
           /\ apc' = [apc EXCEPT ![p] =
                        IF DOMAIN groups = {} THEN "done" ELSE "name"]
    /\ UNCHANGED <<archiveFrequency, archives, logs0, aname, atodo, aerr,
                   acreated, atouched, files, nonArchiveVars>>

\* the name of the bundle of the next period: the first one not in use
chooseName(p) ==
    /\ apc[p] = "name"
    /\ aname' = [aname EXCEPT ![p] =
                    FreeArchiveName(NextPeriod(DOMAIN agroups[p]))]
    /\ apc' = [apc EXCEPT ![p] = "open"]
    /\ UNCHANGED <<archiveFrequency, archives, logs0, asnap, acur, agroups,
                   atodo, aerr, acreated, atouched, files, nonArchiveVars>>

\* tar opens archiveFullPath for writing: the file is created or truncated
tarOpen(p) ==
    /\ apc[p] = "open"
    /\ archives' = [b \in DOMAIN archives \cup {aname[p]} |->
                       IF b = aname[p]
                       THEN [complete |-> FALSE, members |-> {}]
                       ELSE archives[b]]
    /\ acreated' = [acreated EXCEPT ![p] = @ \cup {aname[p]}]
    /\ apc' = [apc EXCEPT ![p] = "pack"]
    /\ UNCHANGED <<archiveFrequency, logs0, asnap, acur, agroups, aname,
                   atodo, aerr, atouched, files, nonArchiveVars>>

\* tar packs periodFiles and closes the bundle; a member that is gone makes
\* tar reject, which ends the run in the catch block
tarPack(p) ==
    /\ apc[p] = "pack"
    /\ LET periodFiles == agroups[p][NextPeriod(DOMAIN agroups[p])]
       IN  IF periodFiles \subseteq DOMAIN files
           THEN /\ archives' = [b \in DOMAIN archives \cup {aname[p]} |->
                                  IF b = aname[p]
                                  THEN [complete |-> TRUE,
                                        members |-> periodFiles]
                                  ELSE archives[b]]
                /\ atouched' = [atouched EXCEPT ![p] = @ \cup periodFiles]
                /\ atodo' = [atodo EXCEPT ![p] = periodFiles]
                /\ apc' = [apc EXCEPT ![p] = "unlink"]
                /\ UNCHANGED aerr
           ELSE /\ aerr' = [aerr EXCEPT ![p] = TRUE]
                /\ apc' = [apc EXCEPT ![p] = "done"]
                /\ UNCHANGED <<archives, atouched, atodo>>
    /\ UNCHANGED <<archiveFrequency, logs0, asnap, acur, agroups, aname,
                   acreated, files, nonArchiveVars>>

\* one fs.unlink of Promise.all(periodFiles.map(...)); ENOENT rejects the
\* Promise.all, the other unlink calls are made all the same
unlinkOriginal(p, f) ==
    /\ apc[p] = "unlink"
    /\ f \in atodo[p]
    /\ atodo' = [atodo EXCEPT ![p] = @ \ {f}]
    /\ IF f \in DOMAIN files
       THEN /\ files' = Unlinked(files, f)
            /\ UNCHANGED aerr
       ELSE /\ aerr' = [aerr EXCEPT ![p] = TRUE]
            /\ UNCHANGED files
    /\ UNCHANGED <<archiveFrequency, archives, logs0, apc, asnap, acur,
                   agroups, aname, acreated, atouched, nonArchiveVars>>

\* Promise.all has settled: the next period of the for loop, the end of
\* the run, or the catch block
nextPeriod(p) ==
    /\ apc[p] = "unlink"
    /\ atodo[p] = {}
    /\ LET rest == DOMAIN agroups[p] \ {NextPeriod(DOMAIN agroups[p])}
       IN  /\ agroups' = [agroups EXCEPT ![p] = [k \in rest |-> agroups[p][k]]]
           /\ apc' = [apc EXCEPT ![p] =
                        IF aerr[p] \/ rest = {} THEN "done" ELSE "name"]
    /\ UNCHANGED <<archiveFrequency, archives, logs0, asnap, acur, aname,
                   atodo, aerr, acreated, atouched, files, nonArchiveVars>>

\* the worker thread dies at any step of the run
archiveCrash(p) ==
    /\ apc[p] \in {"readdir", "name", "open", "pack", "unlink"}
    /\ apc' = [apc EXCEPT ![p] = "dead"]
    /\ UNCHANGED <<archiveFrequency, archives, logs0, asnap, acur, agroups,
                   aname, atodo, aerr, acreated, atouched, files,
                   nonArchiveVars>>

ArchiveNext ==
    \/ \E p \in Procs : spawnArchiveWorker(p)
    \/ \E p \in Procs : readdir(p)
    \/ \E p \in Procs : chooseName(p)
    \/ \E p \in Procs : tarOpen(p)
    \/ \E p \in Procs : tarPack(p)
    \/ \E p \in Procs, f \in LogNames : unlinkOriginal(p, f)
    \/ \E p \in Procs : nextPeriod(p)
    \/ \E p \in Procs : archiveCrash(p)

(***************************************************************************)
(* The retention worker (src/workers/retention.worker.ts) next to an       *)
(* engine that was constructed at the same instant and has its current     *)
(* file open.  A Date is the number of hours since 2024-01-01T00:00Z plus   *)
(* a position inside the hour; new Date(y, m, d, h) reads its arguments in *)
(* the process's time zone.  One filesystem call per step.                 *)
(***************************************************************************)

\* frequencyToHours
frequencyToHours(freq) ==
    CASE freq = "hourly" -> 1
      [] freq = "daily" -> 24
      [] freq = "weekly" -> 24 * 7
      [] freq = "monthly" -> 24 * 31

\* durationToHours
durationToHours(value, unit) ==
    CASE unit = "h" -> value
      [] unit = "d" -> value * 24
      [] unit = "w" -> value * 24 * 7
      [] unit = "m" -> value * 24 * 31
      [] unit = "y" -> value * 24 * 366

\* parseDuration does not throw: the string matches /^(\d+)([hdwmy])$/
parseDuration(d) == d.unit \in {"h", "d", "w", "m", "y"}

\* validateConstraints does not throw; d is the duration if retention is
\* enabled and has one, NoDuration otherwise
validateConstraints(rotation, archiveEnabled, archiveFreq, d) ==
    LET rotationHours == frequencyToHours(rotation)
        archiveHours == frequencyToHours(archiveFreq)
        retentionHours == durationToHours(d.value, d.unit)
    IN  /\ ~(archiveEnabled /\ archiveHours < rotationHours)
        /\ d.unit # "none" =>
             /\ parseDuration(d)
             /\ ~(archiveEnabled /\ retentionHours < archiveHours)
             /\ ~(retentionHours < rotationHours)
             /\ ~(d.unit = "h" /\ rotation = "daily")

\* the local calendar fields of an instant: setHours, setDate, setMonth and
\* setFullYear change one of them and keep the others
LocalDay(h, z) == (h + z) \div 24
\* the instant of the local calendar day with index day, at local hour hh
LocalTime(day, hh, z) == 24 * day + hh - z

\* getCutoffDate(now, value, unit); sub is now's position inside its hour.
\* A day number past the end of the month runs on into the next month, as
\* setMonth does; every instant looked at is after 2024-02-29, so that one
\* year back is 366 days back
getCutoffDate(h, sub, z, value, unit) ==
    LET local == DateStr(LocalDay(h, z))
        hh == LocalHours(h, z)
        cutoffHour ==
            CASE unit = "h" -> h - value
              [] unit = "d" -> LocalTime(LocalDay(h, z) - value, hh, z)
              [] unit = "w" -> LocalTime(LocalDay(h, z) - value * 7, hh, z)
              [] unit = "m" ->
                   LocalTime(MonthStarts[local[1] - value] + local[2] - 1,
                             hh, z)
              [] unit = "y" -> LocalTime(LocalDay(h, z) - value * 366, hh, z)
    IN  [hour |-> cutoffHour, sub |-> sub]

\* parseLogFilename: new Date(year, month - 1, day, hour) for the hourly and
\* the overflow names, new Date(year, month - 1, day) for the daily names
parseLogFilename(f, z) ==
    IF Len(f) >= 4 /\ f[3] = TILDE
    THEN LocalTime(DayOf(<<f[1], f[2]>>), f[4], z)
    ELSE LocalTime(DayOf(<<f[1], f[2]>>), 0, z)

\* parseArchiveFilename, of the bundle named after period
parseArchiveFilename(b, z) ==
    CASE Len(b.period) = 4 ->
             LocalTime(DayOf(<<b.period[1], b.period[2]>>), b.period[4], z)
      [] Len(b.period) = 2 -> LocalTime(DayOf(b.period), 0, z)
      [] Len(b.period) = 1 -> LocalTime(MonthStarts[b.period[1]], 0, z)

OlderThanMutant(fileDate, cutoff) == fileDate <= cutoff.hour
\* fileDate < cutoffDate, fileDate being a whole hour
OlderThan(fileDate, cutoff) ==
    \/ fileDate < cutoff.hour
    \/ fileDate = cutoff.hour /\ cutoff.sub > 0

\* retention.duration: unset, or one of these
RetentionDurations ==
    {NoDuration,
     [value |-> 1, unit |-> "h"], [value |-> 1, unit |-> "d"],
     [value |-> 2, unit |-> "d"], [value |-> 1, unit |-> "w"],
     [value |-> 1, unit |-> "m"], [value |-> 1, unit |-> "y"]}
\* the instants at which the worker runs: Monday 2024-04-01 00:00Z, 12:00Z
\* and 23:00Z
RetentionHours == {91 * 24, 91 * 24 + 12, 91 * 24 + 23}
\* the older log files the directory may hold
OldLogNames ==
    {<<3, 24, DOT>>, <<3, 31, DOT>>, <<3, 31, TILDE, 23, DOT>>}
\* the bundles the archive directory may hold
BundleNames ==
    {getArchiveFilename(<<2>>, 0), getArchiveFilename(<<3, 25>>, 0),
     getArchiveFilename(<<4, 1, TILDE, 0>>, 0)}

\* an accepted configuration; the engine has opened its file; older log
\* files and bundles lie around
RetentionInit ==
    /\ hourNow \in RetentionHours
    /\ subNow \in 0..(SubTicks - 1)
    /\ tz \in TimeZones
    /\ frequency \in {"daily", "hourly"}
    /\ maxSizeBytes = 0
    /\ archiveFrequency \in ArchiveFrequencies
    /\ retentionDuration \in RetentionDurations
    /\ \E archiveEnabled \in BOOLEAN :
         validateConstraints(frequency, archiveEnabled, archiveFrequency,
                             retentionDuration)
    /\ \E names \in SUBSET OldLogNames :
         /\ Cardinality(names) <= MaxLogs
         /\ files =
              [f \in names \cup
                     {getLogPath(getCurrentRotationPeriod(frequency, hourNow,
                                                          tz))} |-> 1]
    /\ constructor
    /\ \E bundles \in SUBSET BundleNames :
         /\ Cardinality(bundles) <= MaxLogs
         /\ archives = [b \in bundles |-> [complete |-> TRUE, members |-> {}]]
    /\ logs0 = {}
    /\ apc = [p \in Procs |-> "idle"]
    /\ asnap = [p \in Procs |-> {}]
    /\ acur = [p \in Procs |-> <<>>]
    /\ agroups = [p \in Procs |-> EmptyDir]
    /\ aname = [p \in Procs |-> <<>>]
    /\ atodo = [p \in Procs |-> {}]
    /\ aerr = [p \in Procs |-> FALSE]
    /\ acreated = [p \in Procs |-> {}]
    /\ atouched = [p \in Procs |-> {}]
    /\ rpc = "idle"
    /\ rcutoff = [hour |-> 0, sub |-> 0]
    /\ rtodo = {}
    /\ rdir0 = [logs |-> DOMAIN files, bundles |-> DOMAIN archives]
    /\ rsched = "off"

startRetentionSchedulerMutant ==
    /\ rsched = "off"
    /\ rpc = "idle"
    /\ rsched' = "on"
    /\ lease' = NewLease(1, 1)
    /\ wpc' = [wpc EXCEPT ![1] = "running"]
    /\ UNCHANGED <<retentionDuration, rdir0, rpc, rcutoff, rtodo, files,
                   archives, kind, spc, attempt, hbOn, hpc, hbData, wcrashes,
                   nonRetentionVars>>
\* startRetentionScheduler in process 1: without a duration it returns a
\* no-op; otherwise tryRunRetention runs at once, finds no lease record,
\* writes its own and spawns the worker
startRetentionScheduler ==
    /\ rsched = "off"
    /\ rpc = "idle"
    /\ IF retentionDuration = NoDuration
         THEN /\ rsched' = "noop"
              /\ UNCHANGED <<lease, wpc>>
         ELSE /\ rsched' = "on"
              /\ lease' = NewLease(1, 1)
              /\ wpc' = [wpc EXCEPT ![1] = "running"]
    /\ UNCHANGED <<retentionDuration, rdir0, rpc, rcutoff, rtodo, files,
                   archives, kind, spc, attempt, hbOn, hpc, hbData, wcrashes,
                   nonRetentionVars>>

\* runRetentionWorker without a duration: nothing to do
returnNoDuration ==
    /\ rpc = "idle"
    /\ retentionDuration = NoDuration
    /\ rpc' = "done"
    /\ UNCHANGED <<retentionDuration, rdir0, rsched, rcutoff, rtodo, files,
                   archives, leaseVars, nonRetentionVars>>

\* parseDuration, now, getCutoffDate, fs.readdir(logDir)
runRetentionWorker ==
    /\ rpc = "idle"
    /\ retentionDuration # NoDuration
    /\ rcutoff' = getCutoffDate(hourNow, subNow, tz, retentionDuration.value,
                                retentionDuration.unit)
    /\ rtodo' = DOMAIN files
    /\ rpc' = "logs"
    /\ hbOn' = [hbOn EXCEPT ![1] = TRUE]
    /\ UNCHANGED <<retentionDuration, rdir0, rsched, files, archives, kind,
                   lease, spc, attempt, wpc, hpc, hbData, wcrashes,
                   nonRetentionVars>>

\* one turn of the loop over logFiles
retainLog(f) ==
    /\ rpc = "logs"
    /\ f \in rtodo
    /\ rtodo' = rtodo \ {f}
    /\ files' = IF OlderThan(parseLogFilename(f, tz), rcutoff)
                THEN Unlinked(files, f)
                ELSE files
    /\ UNCHANGED <<retentionDuration, rdir0, rsched, rpc, rcutoff, archives,
                   leaseVars, nonRetentionVars>>

\* fs.readdir(archivePath) after the last log file
readArchives ==
    /\ rpc = "logs"
    /\ rtodo = {}
    /\ rtodo' = DOMAIN archives
    /\ rpc' = "archives"
    /\ UNCHANGED <<retentionDuration, rdir0, rsched, rcutoff, files, archives,
                   leaseVars, nonRetentionVars>>

\* one turn of the loop over archiveFiles
retainArchive(b) ==
    /\ rpc = "archives"
    /\ b \in rtodo
    /\ rtodo' = rtodo \ {b}
    /\ archives' = IF OlderThan(parseArchiveFilename(b, tz), rcutoff)
                   THEN Unlinked(archives, b)
                   ELSE archives
    /\ UNCHANGED <<retentionDuration, rdir0, rsched, rpc, rcutoff, files,
                   leaseVars, nonRetentionVars>>

\* after the last bundle: the run is over; finally: clearInterval and
\* releaseWorkerLock
retentionComplete ==
    /\ rpc = "archives"
    /\ rtodo = {}
    /\ rpc' = "done"
    /\ hbOn' = [hbOn EXCEPT ![1] = FALSE]
    /\ wpc' = [wpc EXCEPT ![1] = "none"]
    /\ lease' = NoLease
    /\ UNCHANGED <<retentionDuration, rdir0, rsched, rcutoff, rtodo, files,
                   archives, kind, spc, attempt, hpc, hbData, wcrashes,
                   nonRetentionVars>>

RetentionNext ==
    \/ startRetentionScheduler
    \/ returnNoDuration
    \/ runRetentionWorker
    \/ \E f \in rtodo : retainLog(f)
    \/ readArchives
    \/ \E b \in rtodo : retainArchive(b)
    \/ retentionComplete

\* what a failing unlink of the retention worker leaves alone; the failure
\* is recorded in failures as [dir, name]
nonRetentionIOVars ==
    <<lockVars, clockVars, leaseVars, frequency, maxSizeBytes, currentPeriod,
      currentFilePath, bytesWritten, lastDiskSize, isRotating, pendingWrites,
      rotations, otherHolds, accepted, appended, periodChanges, configVars, schedVars,
      clusterVars, archiveFrequency, logs0, apc, asnap, acur, agroups, aname,
      atodo, aerr, acreated, atouched, retentionDuration, rdir0, rsched,
      rcutoff, files, archives>>

unlinkLogFailsMutant(f) ==
    /\ rpc = "logs"
    /\ f \in rtodo
    /\ OlderThan(parseLogFilename(f, tz), rcutoff)
    /\ Len(failures) < MaxFailures
    /\ failures' = Append(failures, [dir |-> "logs", name |-> f])
    /\ rtodo' = {}
    /\ rpc' = "done"
    /\ UNCHANGED nonRetentionIOVars
\* one turn of the loop over logFiles in which fs.unlink rejects: the inner
\* catch logs the failure and the loop goes on
unlinkLogFails(f) ==
    /\ rpc = "logs"
    /\ f \in rtodo
    /\ OlderThan(parseLogFilename(f, tz), rcutoff)
    /\ Len(failures) < MaxFailures
    /\ failures' = Append(failures, [dir |-> "logs", name |-> f])
    /\ rtodo' = rtodo \ {f}
    /\ UNCHANGED <<rpc, nonRetentionIOVars>>

\* one turn of the loop over archiveFiles in which fs.unlink rejects
unlinkArchiveFails(b) ==
    /\ rpc = "archives"
    /\ b \in rtodo
    /\ OlderThan(parseArchiveFilename(b, tz), rcutoff)
    /\ Len(failures) < MaxFailures
    /\ failures' = Append(failures, [dir |-> "archives", name |-> b])
    /\ rtodo' = rtodo \ {b}
    /\ UNCHANGED <<rpc, nonRetentionIOVars>>

\* the retention worker with unlink calls that fail
RetentionIONext ==
    \/ RetentionNext
    \/ \E f \in rtodo : unlinkLogFails(f)
    \/ \E b \in rtodo : unlinkArchiveFails(b)

(***************************************************************************)
(* Setup: the default export of the package (src/index.ts) resolves the    *)
(* options, constructs the FileTransport and starts the schedulers.        *)
(***************************************************************************)

\* resolveOptions returns (does not throw)
resolveOptions(o) ==
    /\ o.path
    /\ validateConstraints(o.rotation, o.archiveEnabled, o.archiveFrequency,
                           IF o.retentionEnabled THEN o.duration
                           ELSE NoDuration)

\* the options with the defaults applied: path given or not, the cadences,
\* the duration unset, well-formed or not ("7x")
OptionSpace ==
    [path : BOOLEAN, rotation : {"daily", "hourly"},
     archiveEnabled : BOOLEAN, archiveFrequency : ArchiveFrequencies,
     retentionEnabled : BOOLEAN,
     duration : RetentionDurations \cup {[value |-> 7, unit |-> "x"]}]

\* nothing exists yet: no log directory, no engine, no scheduler; kind is
\* the worker whose lease file is watched
ConfigInit ==
    /\ options \in OptionSpace
    /\ setup = [pc |-> "init", dirExists |-> FALSE, schedulers |-> {}]
    /\ LockIdle /\ WorldIdle /\ EngineIdle /\ ArchiveIdle /\ RetentionIdle
    /\ ClusterIdle /\ SchedIdle
    /\ kind \in Kinds
    /\ lease = NoLease
    /\ spc = [p \in Procs |-> "idle"]
    /\ attempt = [p \in Procs |-> 1]
    /\ wpc = [p \in Procs |-> "none"]
    /\ hbOn = [p \in Procs |-> FALSE]
    /\ hpc = [p \in Procs |-> "idle"]
    /\ hbData = [p \in Procs |-> NoLease]
    /\ wcrashes = 0

\* new FileTransport(resolved): ensureDirSync, the period, the path, the
\* byte estimate, and SonicBoom opening the file with mkdir and append
newFileTransport ==
    /\ frequency' = options.rotation
    /\ currentPeriod' = getCurrentRotationPeriod(options.rotation, hourNow, tz)
    /\ currentFilePath' =
           findAvailableLogPath(files, currentPeriod', <<>>, FALSE)
    /\ bytesWritten' = getFileSizeSync(files, currentFilePath')
    /\ files' = AppendBytes(files, currentFilePath', 0)
    /\ UNCHANGED <<maxSizeBytes, lastDiskSize, isRotating, pendingWrites,
                   rotations, otherHolds, accepted, appended, periodChanges,
                failures>>

\* which schedulers the default export starts
schedulersOf(o) ==
    {k \in Kinds :
        \/ k = "archive" /\ o.archiveEnabled
        \/ k = "retention" /\ o.retentionEnabled /\ o.duration # NoDuration}

createTransportMutant ==
    /\ setup.pc = "init"
    /\ newFileTransport
    /\ setup' = [pc |-> IF resolveOptions(options) THEN "started" ELSE "threw",
                 dirExists |-> TRUE, schedulers |-> schedulersOf(options)]
    /\ archiveFrequency' = options.archiveFrequency
    /\ retentionDuration' = options.duration
    /\ UNCHANGED <<options, lockVars, leaseVars, clockVars, clusterVars, schedVars,
                   archives, logs0,
                   apc, asnap, acur, agroups, aname, atodo, aerr, acreated,
                   atouched, rpc, rcutoff, rtodo, rdir0, rsched>>
\* the default export: resolveOptions throws, or the engine is constructed
\* and the schedulers are started
createTransport ==
    /\ setup.pc = "init"
    /\ IF resolveOptions(options)
         THEN /\ newFileTransport
              /\ setup' = [pc |-> "started", dirExists |-> TRUE,
                           schedulers |-> schedulersOf(options)]
              /\ archiveFrequency' = options.archiveFrequency
              /\ retentionDuration' = options.duration
         ELSE /\ setup' = [setup EXCEPT !.pc = "threw"]
              /\ UNCHANGED <<files, engineVars, archiveFrequency,
                             retentionDuration>>
    /\ UNCHANGED <<options, lockVars, leaseVars, clockVars, clusterVars, schedVars,
                   archives, logs0,
                   apc, asnap, acur, agroups, aname, atodo, aerr, acreated,
                   atouched, rpc, rcutoff, rtodo, rdir0, rsched>>

\* after the setup the schedulers that were started run on creation
ConfigNext ==
    \/ createTransport
    \/ kind = "archive" /\ kind \in setup.schedulers /\ TryRun(1)
    \/ kind = "archive" /\ AcquireExists(1)
    \/ kind = "archive" /\ AcquireWrite(1)
    \/ kind = "retention" /\ kind \in setup.schedulers
          /\ startRetentionScheduler

(***************************************************************************)
(* The archive worker next to an engine of the same configuration that     *)
(* was constructed at FirstHour and has its file open.  The engine writes  *)
(* through the descriptor it opened; the model's directory goes by names,  *)
(* so it is exact up to the first unlink of the engine's open file.        *)
(***************************************************************************)
SharedInit ==
    /\ hourNow = FirstHour
    /\ subNow = 0
    /\ tz = 0
    /\ frequency \in {"daily", "hourly"}
    /\ archiveFrequency \in ArchiveFrequencies
    /\ validateConstraints(frequency, TRUE, archiveFrequency, NoDuration)
    /\ maxSizeBytes = 0
    /\ files = AppendBytes(EmptyDir,
                  getLogPath(getCurrentRotationPeriod(frequency, hourNow, tz)),
                  1)
    /\ constructor
    /\ logs0 = DOMAIN files
    /\ archives = EmptyDir
    /\ apc = [p \in Procs |-> "idle"]
    /\ asnap = [p \in Procs |-> {}]
    /\ acur = [p \in Procs |-> <<>>]
    /\ agroups = [p \in Procs |-> EmptyDir]
    /\ aname = [p \in Procs |-> <<>>]
    /\ atodo = [p \in Procs |-> {}]
    /\ aerr = [p \in Procs |-> FALSE]
    /\ acreated = [p \in Procs |-> {}]
    /\ atouched = [p \in Procs |-> {}]

\* the engine writes short lines and rotates at the period boundary, nobody
\* else holds the rotation lock; process 1 runs the archive worker
SharedNext ==
    \/ \E due \in BOOLEAN : write("s", due)
    \/ \E i \in 1..MaxRotations : rotate(i)
    \/ \E i \in 1..MaxRotations : reopen(i)
    \/ \E i \in 1..MaxRotations : processPendingWrites(i)
    \/ hourPasses
    \/ spawnArchiveWorker(1)
    \/ readdir(1)
    \/ chooseName(1)
    \/ tarOpen(1)
    \/ tarPack(1)
    \/ \E f \in atodo[1] : unlinkOriginal(1, f)
    \/ nextPeriod(1)

(***************************************************************************)
(* Several processes, one FileTransport each, on one directory.  All have  *)
(* the same options and had the same full file open when the model starts; *)
(* each goes through one rotate("size") under the rotation lock and then   *)
(* writes to the file it has chosen.                                       *)
(***************************************************************************)

\* the period in which the engines were constructed and its primary file
FirstPeriod == getCurrentRotationPeriod(frequency, FirstHour, 0)
SharedFile == getLogPath(FirstPeriod)
\* an overflow file of an hour before, full as well
EarlierOverflow == generateOverflowFilename(FirstHour - 1, 0, 0)

ClusterInit ==
    /\ hourNow = FirstHour
    /\ subNow = 0
    /\ tz = 0
    /\ frequency \in {"daily", "hourly"}
    /\ maxSizeBytes \in MaxSizes \ {0}
    /\ \E earlier \in BOOLEAN :
         files = IF earlier
                 THEN AppendBytes(AppendBytes(EmptyDir, SharedFile, maxSizeBytes),
                                  EarlierOverflow, maxSizeBytes)
                 ELSE AppendBytes(EmptyDir, SharedFile, maxSizeBytes)
    /\ procFile = [p \in Procs |-> SharedFile]
    /\ procPeriod = [p \in Procs |-> FirstPeriod]
    /\ procStage = [p \in Procs |-> "writing"]
    /\ procNewPath = [p \in Procs |-> <<>>]
    /\ procBytes = [p \in Procs |-> maxSizeBytes]
    /\ currentPeriod = <<>>
    /\ currentFilePath = <<>>
    /\ bytesWritten = 0
    /\ lastDiskSize = 0
    /\ isRotating = FALSE
    /\ pendingWrites = <<>>
    /\ rotations = <<>>
    /\ otherHolds = FALSE
    /\ accepted = 0
    /\ appended = <<>>
    /\ periodChanges = <<>>
    /\ failures = <<>>

\* write() of process p finds the size exceeded (bytesWritten + lineBytes
\* >= maxSizeBytes) and calls rotate("size"), which waits for the lock
sizeExceededWrite(p) ==
    /\ procStage[p] = "writing"
    /\ procBytes[p] + LineBytes["s"] >= maxSizeBytes
    /\ procStage' = [procStage EXCEPT ![p] = "waiting"]
    /\ UNCHANGED <<procFile, procPeriod, procNewPath, procBytes, files,
                   engineVars, lockVars, leaseVars, clockVars, archiveVars,
                   retentionVars, configVars, schedVars>>

\* p gets the rotation lock and rotate("size") runs to the drain promise:
\* period update, recheck, choice of the new path
lockedRotate(p) ==
    /\ procStage[p] = "waiting"
    /\ MarkerFree
    /\ LET period == getCurrentRotationPeriod(frequency, hourNow, tz)
           currentSize == getFileSizeSync(files, procFile[p])
           hasSpace ==
               currentSize * 100 < maxSizeBytes * ROTATION_THRESHOLD_PERCENT
           newPath == findAvailableLogPath(files, period, procFile[p], TRUE)
           alreadyBest == newPath = procFile[p] /\ currentSize < maxSizeBytes
       IN  /\ procPeriod' = [procPeriod EXCEPT ![p] = period]
           /\ IF hasSpace \/ alreadyBest
              THEN /\ procBytes' = [procBytes EXCEPT ![p] = currentSize]
                   /\ procStage' = [procStage EXCEPT ![p] = "done"]
                   /\ markerExists' = FALSE
                   /\ UNCHANGED procNewPath
              ELSE /\ procNewPath' = [procNewPath EXCEPT ![p] = newPath]
                   /\ procStage' = [procStage EXCEPT ![p] = "drain"]
                   /\ markerExists' = TRUE
                   /\ UNCHANGED procBytes
    /\ markerAge' = 0
    /\ UNCHANGED <<procFile, files, engineVars, lpc, tries, gotLock, crashes,
                   leaseVars, clockVars, archiveVars, retentionVars,
                   configVars, schedVars>>

\* rotate() of p after the drain promise: the new file is created and
\* opened, the tracking fields follow it, the lock is released
lockedReopen(p) ==
    /\ procStage[p] = "drain"
    /\ LET dir == AppendBytes(files, procNewPath[p], 0)
       IN  /\ files' = dir
           /\ procFile' = [procFile EXCEPT ![p] = procNewPath[p]]
           /\ procBytes' = [procBytes EXCEPT
                               ![p] = getFileSizeSync(dir, procNewPath[p])]
    /\ procStage' = [procStage EXCEPT ![p] = "done"]
    /\ markerExists' = FALSE
    /\ markerAge' = 0
    /\ UNCHANGED <<procPeriod, procNewPath, engineVars, lpc, tries, gotLock,
                   crashes, leaseVars, clockVars, archiveVars, retentionVars,
                   configVars, schedVars>>

\* a write() of p after its rotation that fits by p's own estimate: the
\* line goes to p's current file
rotatedWrite(p, text) ==
    /\ procStage[p] = "done"
    /\ procBytes[p] + LineBytes[text] < maxSizeBytes
    /\ procBytes' = [procBytes EXCEPT ![p] = @ + LineBytes[text]]
    /\ files' = AppendBytes(files, procFile[p], LineBytes[text])
    /\ UNCHANGED <<procFile, procPeriod, procStage, procNewPath, engineVars,
                   lockVars, leaseVars, clockVars, archiveVars, retentionVars,
                   configVars, schedVars>>

ClusterNext ==
    \/ \E p \in Procs : sizeExceededWrite(p)
    \/ \E p \in Procs : lockedRotate(p)
    \/ \E p \in Procs : lockedReopen(p)
    \/ \E p \in Procs : rotatedWrite(p, "L")
    \/ instantPasses
    \/ hourPasses

(***************************************************************************)
(* The engine inside a rotate() call, in a directory that other processes  *)
(* and earlier runs have filled: the primary file of the period and the    *)
(* overflow files of three instants of the hour before are absent, have    *)
(* room or are full.                                                       *)
(***************************************************************************)
ChoiceSizes == {0, 50, 100}
\* -1 stands for a file that is not there
Absent == 0 - 1
OverflowsBefore == [k \in 1..3 |-> generateOverflowFilename(FirstHour - 1, 0, k - 1)]

ChoiceDir(primarySize, sizes) ==
    LET p == getLogPath(getCurrentRotationPeriod(frequency, FirstHour, 0))
        names == {p : x \in {primarySize} \ {Absent}}
                   \cup {OverflowsBefore[k] : k \in {j \in 1..3 : sizes[j] # Absent}}
    IN  [f \in names |-> IF f = p THEN primarySize
                         ELSE sizes[CHOOSE k \in 1..3 : OverflowsBefore[k] = f]]

ChoiceInit ==
    /\ hourNow = FirstHour
    /\ subNow = 0
    /\ tz = 0
    /\ frequency \in {"daily", "hourly"}
    /\ maxSizeBytes \in MaxSizes
    /\ \E primarySize \in ChoiceSizes \cup {Absent},
          sizes \in [1..3 -> ChoiceSizes \cup {Absent}] :
         files = ChoiceDir(primarySize, sizes)
    /\ currentPeriod = getCurrentRotationPeriod(frequency, FirstHour, 0)
    /\ currentFilePath \in DOMAIN files
    /\ bytesWritten = getFileSizeSync(files, currentFilePath)
    /\ lastDiskSize = bytesWritten
    /\ isRotating = TRUE
    /\ pendingWrites = <<[id |-> 1, text |-> "L"]>>
    /\ \E reason \in {"size", "period"} :
         rotations = <<[chain |-> "write", reason |-> reason, stage |-> "body",
                        gotLock |-> TRUE, newPath |-> <<>>, macro |-> FALSE]>>
    /\ otherHolds = FALSE
    /\ accepted = 1
    /\ appended = <<>>
    /\ periodChanges = <<>>
    /\ failures = <<>>
    /\ markerExists = TRUE
    /\ markerAge = 0
    /\ lpc = [p \in Procs |-> "idle"]
    /\ tries = [p \in Procs |-> 0]
    /\ gotLock = [p \in Procs |-> FALSE]
    /\ crashes = 0

ChoiceNext ==
    \/ \E i \in 1..MaxRotations : rotate(i)
    \/ \E i \in 1..MaxRotations : reopen(i)
    \/ \E i \in 1..MaxRotations : processPendingWrites(i)
    \/ instantPasses

(***************************************************************************)
(* Specifications                                                          *)
(***************************************************************************)
LockInit ==
    /\ LockIdle /\ LeaseIdle /\ WorldIdle
    /\ EngineIdle /\ ArchiveIdle /\ RetentionIdle /\ ConfigIdle /\ SchedIdle /\ ClusterIdle
SpecLock == LockInit /\ [][LockNext]_vars

\* tryAcquireRotationLock is synchronous code: a process that is not dead
\* goes from statSync to rmdirSync to mkdirSync
LockFairness ==
    \A p \in Procs :
        /\ WF_vars(StatMarker(p))
        /\ WF_vars(RemoveStale(p))
        /\ WF_vars(MakeMarker(p))
SpecLockFair == LockInit /\ [][LockNext]_vars /\ LockFairness

RaceSpecInit ==
    /\ RaceInit /\ LeaseIdle /\ WorldIdle
    /\ EngineIdle /\ ArchiveIdle /\ RetentionIdle /\ ConfigIdle /\ SchedIdle /\ ClusterIdle
SpecRace == RaceSpecInit /\ [][RaceNext]_vars

LeaseSpecInit ==
    /\ LockIdle /\ LeaseInit /\ WorldIdle
    /\ EngineIdle /\ ArchiveIdle /\ RetentionIdle /\ ConfigIdle /\ SchedIdle /\ ClusterIdle
SpecLease == LeaseSpecInit /\ [][LeaseNext]_vars

\* a process other than the first stays alive: its cron task calls
\* tryRunArchive / tryRunRetention at every tick of the schedule, each
\* await of tryAcquireWorkerLock returns, a worker it spawned ends, and
\* the clock advances
LeaseFairness ==
    /\ WF_vars(LeaseTick)
    /\ \A p \in Procs \ {1} :
         /\ WF_vars(TryRun(p))
         /\ WF_vars(AcquireExists(p))
         /\ WF_vars(AcquireRead(p))
         /\ WF_vars(AcquireWrite(p))
         /\ WF_vars(WorkerFinish(p))
\* the archive lease; the retention lease is the same code on another file
LeaseFairInit == LeaseSpecInit /\ kind = "archive"
SpecLeaseFair == LeaseFairInit /\ [][LeaseNext]_vars /\ LeaseFairness

EngineSpecInit ==
    /\ EngineInit /\ LockIdle /\ LeaseIdle
    /\ ArchiveIdle /\ RetentionIdle /\ ConfigIdle /\ SchedIdle /\ ClusterIdle
SpecEngine == EngineSpecInit /\ [][EngineNext]_vars
SpecEngineIO == EngineSpecInit /\ [][EngineIONext]_vars

ArchiveSpecInit ==
    /\ ArchiveInit /\ LockIdle /\ LeaseIdle
    /\ EngineIdle /\ RetentionIdle /\ ConfigIdle /\ SchedIdle /\ ClusterIdle
SpecArchive == ArchiveSpecInit /\ [][ArchiveNext]_vars

RetentionSpecInit == RetentionInit /\ LockIdle /\ LeaseIdle /\ ConfigIdle /\ SchedIdle /\ ClusterIdle
SpecRetention == RetentionSpecInit /\ [][RetentionNext]_vars
SpecRetentionIO == RetentionSpecInit /\ [][RetentionIONext]_vars

SpecConfig == ConfigInit /\ [][ConfigNext]_vars

SchedSpecInit ==
    /\ SchedInit /\ LockIdle /\ WorldIdle /\ EngineIdle
    /\ ArchiveIdle /\ RetentionIdle /\ ConfigIdle /\ ClusterIdle
SpecSched == SchedSpecInit /\ [][SchedNext]_vars

SharedSpecInit ==
    /\ SharedInit /\ LockIdle /\ LeaseIdle /\ RetentionIdle
    /\ ConfigIdle /\ SchedIdle /\ ClusterIdle
SpecShared == SharedSpecInit /\ [][SharedNext]_vars

ClusterSpecInit ==
    /\ ClusterInit /\ LockIdle /\ LeaseIdle
    /\ ArchiveIdle /\ RetentionIdle /\ ConfigIdle /\ SchedIdle
SpecCluster == ClusterSpecInit /\ [][ClusterNext]_vars

ChoiceSpecInit ==
    /\ ChoiceInit /\ LeaseIdle /\ ArchiveIdle /\ RetentionIdle
    /\ ConfigIdle /\ SchedIdle /\ ClusterIdle
SpecChoice == ChoiceSpecInit /\ [][ChoiceNext]_vars

(***************************************************************************)
(* Claims about the rotation lock                                          *)
(***************************************************************************)

\* C1: at most one process is between a successful acquisition of the
\* rotation lock and its own release of it, in every reachable state of
\* every interleaving, the stale-marker branch included.
C1_RotationLockMutualExclusion ==
    Cardinality({p \in Procs : HoldsRotationLock(p)}) <= 1

\* ... and it was the successful one
WonFirstAttempt(p) == gotLock[p] /\ tries[p] = 0
\* p went on into rotate() without the lock
Degraded(p) == lpc[p] \in {"body", "idle"} /\ ~gotLock[p]

\* C8: of the simultaneous attempts on an absent marker exactly one
\* succeeds; a loser retries on the 20 ms timer and either acquires the
\* lock when no other process holds it any more, or after exactly
\* ROTATION_MAX_RETRIES failed attempts goes on into rotate() without the
\* lock; within that second the stale branch is never taken and no two
\* processes hold the lock.
C8_SimultaneousAcquire ==
    /\ (\A p \in Procs : FirstAttemptOver(p))
          => Cardinality({p \in Procs : WonFirstAttempt(p)}) = 1
    /\ Cardinality({p \in Procs : WonFirstAttempt(p)}) <= 1
    /\ Cardinality({p \in Procs : HoldsRotationLock(p)}) <= 1
    /\ \A p \in Procs :
          /\ lpc[p] # "rmdir"
          /\ tries[p] <= ROTATION_MAX_RETRIES
          /\ markerAge <= ROTATION_MAX_RETRIES * ROTATION_RETRY_MS
          /\ Degraded(p) => tries[p] = ROTATION_MAX_RETRIES
          /\ gotLock[p] => tries[p] < ROTATION_MAX_RETRIES
          /\ lpc[p] \in {"stat", "mkdir", "sleep"} => tries[p] < ROTATION_MAX_RETRIES

\* the winner of the first attempt still holds the lock, and a loser has
\* used up its 50 attempts and is inside rotate() without the lock
C8_Witness ==
    \E p, q \in Procs :
        /\ p # q
        /\ WonFirstAttempt(q) /\ HoldsRotationLock(q)
        /\ lpc[p] = "body" /\ ~gotLock[p] /\ tries[p] = ROTATION_MAX_RETRIES

(***************************************************************************)
(* Claims about the worker lease                                           *)
(***************************************************************************)

\* process q has just created the marker and runs the body of rotate()
JustAcquired(q) ==
    /\ lpc[q] = "body"
    /\ gotLock[q]
    /\ markerExists
    /\ markerAge = 0

ReadsFreshLease(p) ==
    /\ spc[p] = "read"
    /\ lease # NoLease
    /\ lease.hbAge < WORKER_STALE_MS

\* C29: when tryAcquireWorkerLock finds a lease record whose heartbeat is
\* younger than WORKER_STALE_MS it returns null and leaves the record as it
\* is, and the scheduler that called it spawns no worker.
C29_FreshLeaseRefused ==
    [][\A p \in Procs :
         (ReadsFreshLease(p) /\ spc'[p] # "read") =>
             /\ spc'[p] = "idle"
             /\ lease' = lease
             /\ wpc'[p] = "none"
             /\ hbOn'[p] = hbOn[p]]_vars

\* a scheduler reads the fresh record of another process's running worker
C29_Witness ==
    \E p \in Procs : \E q \in Procs \ {p} :
        /\ ReadsFreshLease(p)
        /\ lease.pid = q
        /\ wpc[q] = "running"

\* process p's tryAcquireWorkerLock goes on to create the lease: it found
\* no record, or read a stale one
DecidesToWrite(p) ==
    /\ spc[p] \in {"exists", "read"}
    /\ spc'[p] = "write"

\* process p's writeJsonFile of the lease succeeds
WritesLease(p) ==
    /\ spc[p] = "write"
    /\ spc'[p] = "idle"

WorkerActs(p) ==
    \/ hpc[p] = "write" /\ hpc'[p] = "idle"
    \/ wpc[p] = "running" /\ wpc'[p] = "none"

\* C31: a worker never overwrites or deletes a lease record owned by another
\* process: neither its heartbeat timer nor the release at the end of its
\* run changes a record that carries another pid.
C31_ForeignLeaseUntouched ==
    [][\A p \in Procs :
         (lease # NoLease /\ lease.pid # p /\ WorkerActs(p)) =>
             lease' = lease]_vars

\* process p's worker run settles (its finally block has released the lease)
RunSettles(p) ==
    /\ wpc[p] = "running"
    /\ wpc'[p] = "none"
    /\ wcrashes' = wcrashes

\* the heartbeat of a run of process p that has settled writes the record
LateHeartbeat(p) ==
    /\ wpc[p] = "none"
    /\ hpc[p] = "write"
    /\ hpc'[p] = "idle"

\* C32: once a worker run has settled its lease record is gone and the run
\* does not write it again, whatever the run's heartbeat timer was doing.
C32_SettledRunLeavesNoLease ==
    [][\A p \in Procs :
         /\ RunSettles(p) => (lease' = NoLease \/ lease'.pid # p)
         /\ LateHeartbeat(p) => lease' = lease]_vars

\* a staleness check of process p's running scheduler ends without having
\* found a stale record
CheckEndsQuietly(p) ==
    /\ sched[p] = "on"
    /\ sched'[p] = "on"
    /\ cpc[p] # "idle"
    /\ cpc'[p] = "idle"
    /\ spc'[p] = spc[p]

\* C33: a process whose scheduler runs checks the lease for staleness again
\* and again: when one check is over without a takeover, the next one is
\* scheduled (or an acquisition, which schedules one, is under way).
C33_StalenessCheckRepeats ==
    [][\A p \in Procs :
         CheckEndsQuietly(p) => (checks'[p] > 0 \/ spc'[p] # "idle")]_vars

\* process p starts a lease acquisition (tryRunArchive is called)
StartsAttempt(p) == spc[p] = "idle" /\ spc'[p] = "exists"

\* process p spawns a worker
SpawnsWorker(p) == wpc[p] = "none" /\ wpc'[p] = "running"

\* C34: once its stop function has been called a scheduler starts no lease
\* acquisition and spawns no worker, be it from a cron tick or from a
\* staleness check that was pending; a running worker is left running.
C34_StoppedSchedulerIsQuiet ==
    [][\A p \in Procs :
         /\ sched[p] = "stopped" => (~StartsAttempt(p) /\ ~SpawnsWorker(p))
         /\ (sched[p] = "on" /\ sched'[p] = "stopped") => wpc'[p] = wpc[p]]_vars

\* process p's tryRunArchive has written the lease and is over without a
\* worker of p running
AcquiredWithoutWorker(p) ==
    /\ spc[p] = "write"
    /\ spc'[p] = "idle"
    /\ wpc'[p] # "running"

\* C40: a scheduler that has acquired the lease but could not spawn the
\* worker does not leave its record behind: when its tryRunArchive is over
\* there is no record of that process.
C40_NoLeaseWithoutWorker ==
    [][\A p \in Procs :
         AcquiredWithoutWorker(p) => (lease' = NoLease \/ lease'.pid # p)]_vars

\* C2: for each worker kind at most one process at a time has acquired
\* the lease and has a worker of that kind that has not yet finished.
C2_WorkerLeaseExclusive ==
    Cardinality({p \in Procs : wpc[p] = "running"}) <= 1

\* the lease record of process p is on disk and p has no worker running:
\* p died while its worker ran and its heartbeat stopped
Orphaned(p) ==
    /\ lease # NoLease
    /\ lease.pid = p
    /\ wpc[p] # "running"

\* process p has written the lease record and runs the worker
HoldsAndRuns(p) ==
    /\ lease # NoLease
    /\ lease.pid = p
    /\ wpc[p] = "running"

\* the record on disk carries the last attempt number the model counts
AttemptsExhausted == lease # NoLease /\ lease.attempt >= MaxAttempt

\* C18: when the process holding a worker lease has crashed and another
\* process keeps a running scheduler for that worker kind, the stale
\* record is eventually found and a live process acquires the lease and
\* runs the worker.
C18_LeaseFailover ==
    (Orphaned(1) /\ lease.attempt < MaxAttempt)
        ~> ((\E p \in Procs : HoldsAndRuns(p)) \/ AttemptsExhausted)

\* a record left by a crashed holder has been taken over
C18_Witness ==
    /\ wcrashes > 0
    /\ \E p \in Procs \ {1} : HoldsAndRuns(p) /\ lease.attempt > 1

(***************************************************************************)
(* Claims about the rotation engine                                        *)
(***************************************************************************)

\* C3: within one engine instance the payloads are handed to the file
\* append in exactly the order in which write() accepted them: the ids in
\* appended, numbered in order of acceptance, are strictly increasing
C3_WriteOrderPreserved ==
    \A i, j \in DOMAIN appended :
        i < j => appended[i].id < appended[j].id

\* C6: with max size > 0, when rotate("size") leaves the file that reached
\* the threshold, the file it switches to is a different file whose name
\* sorts after the name of the file it leaves and which is a file of the
\* engine's current period
C6_SizeRotationAdvances ==
    [][(/\ maxSizeBytes > 0
        /\ \E i \in DOMAIN rotations :
              /\ rotations[i].stage = "drain"
              /\ rotations[i].reason = "size"
              /\ i \in DOMAIN rotations'
              /\ rotations'[i].stage = "replay")
       => (/\ currentFilePath' # currentFilePath
           /\ NameLess(currentFilePath, currentFilePath')
           /\ FileOfPeriod(currentFilePath', currentPeriod', frequency))]_vars

\* C7: a payload whose write() found the period changed, and every payload
\* accepted after it, is appended to a file of that new period (or of a
\* period a later write() changed to), never to a file of an older period;
\* and whenever the engine is not rotating, currentFilePath is a file of
\* currentPeriod
C7_PeriodRotation ==
    /\ \A c \in DOMAIN periodChanges, e \in DOMAIN appended :
          appended[e].id >= periodChanges[c].id =>
            \E d \in DOMAIN periodChanges :
               /\ periodChanges[d].id >= periodChanges[c].id
               /\ FileOfPeriod(appended[e].file, periodChanges[d].period,
                               frequency)
    /\ ~isRotating => FileOfPeriod(currentFilePath, currentPeriod, frequency)

(***************************************************************************)
(* Claims about the archive worker                                         *)
(***************************************************************************)

\* the period groups a run found: the closed periods that had log files
GroupsOf(p) == filesByPeriod(asnap[p], acur[p], archiveFrequency, tz)

\* every log file of the snapshot of p has the key of the current period
OnlyCurrent(p) ==
    \A f \in asnap[p] : getFilePeriod(f, archiveFrequency, tz) = acur[p]

\* C4: for every archive cadence, a run neither bundles nor deletes a log
\* file whose archive-period key equals the run's current archive period;
\* a run that finds only current-period files creates no bundle and
\* deletes nothing, and if the directory holds only such files it stays
\* as it was
C4_CurrentPeriodUntouched ==
    /\ \A p \in Procs :
          /\ \A f \in atouched[p] :
                getFilePeriod(f, archiveFrequency, tz) # acur[p]
          /\ \A f \in asnap[p] :
                getFilePeriod(f, archiveFrequency, tz) = acur[p]
                  => f \in DOMAIN files
          /\ OnlyCurrent(p) => acreated[p] = {} /\ atouched[p] = {}
    /\ (\A f \in logs0 :
           getFilePeriod(f, archiveFrequency, tz) =
             getCurrentArchivePeriod(archiveFrequency, hourNow, tz))
         => files = [f \in logs0 |-> 1] /\ archives = EmptyDir

\* a run has ended that bundled a closed period and left a file of the
\* current period in place
C4_Witness ==
    \E p \in Procs :
        /\ apc[p] = "done"
        /\ atouched[p] # {}
        /\ \E f \in asnap[p] :
              /\ getFilePeriod(f, archiveFrequency, tz) = acur[p]
              /\ f \in DOMAIN files

\* C9: after a run that met no I/O error, for each closed period that had
\* log files none of its source files is left in the log directory and the
\* run has created exactly one bundle for it
C9_ClosedPeriodsBundled ==
    \A p \in Procs :
        (apc[p] = "done" /\ ~aerr[p]) =>
            \A k \in DOMAIN GroupsOf(p) :
                /\ \A f \in GroupsOf(p)[k] : f \notin DOMAIN files
                /\ Cardinality({b \in acreated[p] : b.period = k}) = 1

\* an error-free run has ended that had two closed periods to bundle
C9_Witness ==
    \E p \in Procs :
        /\ apc[p] = "done"
        /\ ~aerr[p]
        /\ Cardinality(DOMAIN GroupsOf(p)) = 2

\* C35: a failure of tar or of an unlink in one period group does not keep
\* the run from processing the remaining groups: when the run is over it has
\* opened a bundle for every closed period it had found.
C35_FailedGroupDoesNotStopRun ==
    \A p \in Procs :
        apc[p] = "done" =>
            \A k \in DOMAIN GroupsOf(p) : \E b \in acreated[p] : b.period = k

\* C36: the archive worker never writes a bundle to a path that exists: at
\* the step in which tar opens archiveFullPath no bundle has that name, and
\* the name is the first free one of <period>-archive, <period>-archive-1, ...
C36_BundleNeverOverwritten ==
    [][\A p \in Procs :
         (apc[p] = "open" /\ apc'[p] = "pack") =>
             /\ aname[p] \notin DOMAIN archives
             /\ aname[p] = FreeArchiveName(aname[p].period)]_vars

\* C38: an archive run bundles and deletes only log files whose archive
\* period is strictly before the run's current archive period; a file with
\* a later period key is left alone.
C38_OnlyEarlierPeriodsBundled ==
    \A p \in Procs : \A f \in atouched[p] :
        NameLess(getFilePeriod(f, archiveFrequency, tz), acur[p])

\* an archive run unlinks the file the engine has open as its destination
UnlinksOpenFile ==
    /\ currentFilePath \in DOMAIN files
    /\ currentFilePath \notin DOMAIN files'
    /\ currentFilePath' = currentFilePath

\* the engine appends a payload to a file an archive run has already packed
AppendsToPackedFile ==
    \E k \in DOMAIN appended' \ DOMAIN appended :
        \E p \in Procs : appended'[k].file \in atouched[p]

\* C39: the archive worker never deletes the log file an engine has open as
\* its write destination, and no payload is appended to a file that has
\* been bundled already.
C39_OpenFileNotArchived ==
    [][~UnlinksOpenFile /\ ~AppendsToPackedFile]_vars

\* C10: at every point of the archive runs, crashes included, every log
\* file that was in the directory is still there or is a member of a
\* completely written bundle
C10_NoDataLoss ==
    \A f \in logs0 :
        \/ f \in DOMAIN files
        \/ \E b \in DOMAIN archives :
              archives[b].complete /\ f \in archives[b].members

\* C15: with max size 0 no write triggers a size rotation and no overflow
\* file is created: after every step every file of the directory is a
\* primary file, and every payload the step appends goes to the primary
\* file of the period the engine is in, whatever the sizes.
C15_MaxSizeZeroNeverOverflows ==
    [][maxSizeBytes = 0 =>
        /\ \A i \in DOMAIN rotations' : rotations'[i].reason # "size"
        /\ \A f \in DOMAIN files' : \A t \in DOMAIN f : f[t] # DASH
        /\ \A k \in DOMAIN appended' \ DOMAIN appended :
               appended'[k].file = getLogPath(currentPeriod')]_vars

\* max size 0, a primary file beyond 100 bytes, and payloads written to it
\* before and after a period rotation
C15_Witness ==
    /\ maxSizeBytes = 0
    /\ \E f \in DOMAIN files : files[f] > 100
    /\ periodChanges # <<>>
    /\ ~isRotating
    /\ \E k \in DOMAIN appended : appended[k].file # currentFilePath
    /\ \E k \in DOMAIN appended : appended[k].file = currentFilePath

\* f is an overflow file, of the period of the primary file g
OverflowOf(f, g) ==
    /\ Len(f) = 7
    /\ Len(g) < 7
    /\ getOverflowPattern(f, SubSeq(g, 1, Len(g) - 1), frequency)

\* C16: the names of the log files sort, in byte order, as the times they
\* stand for: a file that is created sorts after every file that is in the
\* directory already (an overflow file after the primary file of its
\* period, after the earlier overflow files and after the files of earlier
\* periods), except that a primary file sorts before the overflow files of
\* its own period.
C16_NamesSortByTime ==
    [][\A f \in DOMAIN files' \ DOMAIN files : \A g \in DOMAIN files :
          IF OverflowOf(g, f) THEN NameLess(f, g) ELSE NameLess(g, f)]_vars

\* C17: if rotate() fails with an I/O error, isRotating returns to false
\* and the write() calls that follow are accepted and appended to the file
\* that was open before the failed rotation: the first write() after the
\* failure, in the same instant, appends its payload to the current file,
\* which the failure left alone.
C17_FailedRotationKeepsFile ==
    [][(/\ failures # <<>>
        /\ failures[Len(failures)].n = accepted
        /\ failures[Len(failures)].hour = hourNow
        /\ failures[Len(failures)].sub = subNow
        /\ rotations = <<>>
        /\ accepted' = accepted + 1)
       => /\ ~isRotating
          /\ appended' = Append(appended, [id |-> accepted',
                                           file |-> currentFilePath])]_vars

\* C19: a write() called while isRotating is true puts its payload at the
\* tail of pendingWrites, is accepted, and changes nothing else: no byte
\* goes to any file, and currentFilePath, currentPeriodKey and the byte
\* estimate stay as they are.
C19_WriteWhileRotatingBuffers ==
    [][(isRotating /\ accepted' = accepted + 1)
       => /\ Len(pendingWrites') = Len(pendingWrites) + 1
          /\ SubSeq(pendingWrites', 1, Len(pendingWrites)) = pendingWrites
          /\ pendingWrites'[Len(pendingWrites')].id = accepted'
          /\ UNCHANGED <<files, appended, currentFilePath, currentPeriod,
                         bytesWritten, lastDiskSize, isRotating, rotations,
                         periodChanges, failures, frequency, maxSizeBytes,
                         markerExists>>]_vars

\* a payload waits behind the one whose write() started the rotation
C19_Witness ==
    /\ isRotating
    /\ Len(pendingWrites) >= 2
    /\ pendingWrites[Len(pendingWrites)].id = accepted

\* C21: isRotating is true in every state in which a rotate() call of the
\* engine is in flight or pendingWrites is non-empty; it goes back to false
\* only after a replay has emptied the queue without starting a rotation.
C21_RotatingWhileBusy ==
    (rotations # <<>> \/ pendingWrites # <<>>) => isRotating

\* C22: when the replay of a batch stops at item i to rotate again, the
\* queue becomes items i..end of the batch, in order, followed by the
\* writes that arrived meanwhile, also when payloads have equal content;
\* hence no payload is appended twice.
C22_ReplayRequeuesTheRest ==
    [][\A i \in DOMAIN rotations :
          (/\ rotations[i].stage = "replay"
           /\ i \in DOMAIN rotations'
           /\ rotations'[i].chain = "replay"
           /\ rotations'[i].stage \in {"body", "sleep"}
           /\ Len(appended') >= Len(appended)
           /\ accepted' = accepted)
          => /\ pendingWrites' =
                  SubSeq(pendingWrites,
                         Len(appended') - Len(appended) + 1,
                         Len(pendingWrites))
             /\ \A k, l \in DOMAIN appended' :
                    appended'[k].id = appended'[l].id => k = l]_vars

\* C23: draining terminates, also for rotations that are aborted by the
\* recheck or fail: when no rotate() call and no replay of the engine is
\* left in flight, pendingWrites is empty, isRotating is false and every
\* accepted payload has been appended to a log file.
C23_DrainCompletes ==
    rotations = <<>> =>
        /\ pendingWrites = <<>>
        /\ ~isRotating
        /\ \A id \in 1..accepted : \E k \in DOMAIN appended : appended[k].id = id

\* C24: a size-triggered rotate() that after the lock wait finds the
\* committed size of its current file below 98% of max size creates no file
\* and leaves currentFilePath alone; it only sets the byte estimate and the
\* last-sampled disk size to the committed size.
C24_AbortedRotationOnlyResyncs ==
    [][\A i \in DOMAIN rotations :
          (/\ rotations[i].stage = "body"
           /\ rotations[i].reason = "size"
           /\ Len(rotations') = Len(rotations)
           /\ rotations'[i].stage = "replay"
           /\ getFileSizeSync(files, currentFilePath) * 100
                  < maxSizeBytes * ROTATION_THRESHOLD_PERCENT)
          => /\ bytesWritten' = getFileSizeSync(files, currentFilePath)
             /\ lastDiskSize' = getFileSizeSync(files, currentFilePath)
             /\ UNCHANGED <<files, currentFilePath, currentPeriod, isRotating,
                            pendingWrites, appended, accepted>>]_vars

\* f has room; f may be taken by a rotation that leaves the file current
\* for the given reason
HasRoom(f) == maxSizeBytes = 0 \/ getFileSizeSync(files, f) < maxSizeBytes
MayTake(f, reason) == HasRoom(f) /\ ~(reason = "size" /\ f = currentFilePath)
\* the existing overflow files of the period a rotation may take
RoomyOverflows(period, reason) ==
    {g \in DOMAIN files :
        getOverflowPattern(g, period, frequency) /\ MayTake(g, reason)}

C26_FreshOverflowName ==
    \A i \in DOMAIN rotations :
        LET reason == rotations[i].reason
            period == getCurrentRotationPeriod(frequency, hourNow, tz)
            returnsAtRecheck ==
                /\ reason = "size"
                /\ maxSizeBytes > 0
                /\ getFileSizeSync(files, currentFilePath) * 100
                       < maxSizeBytes * ROTATION_THRESHOLD_PERCENT
        IN  (/\ rotations[i].stage = "body"
             /\ ~returnsAtRecheck
             /\ ~MayTake(getLogPath(period), reason)
             /\ RoomyOverflows(period, reason) = {})
            => generateOverflowFilename(hourNow, tz, subNow) \notin DOMAIN files

\* the rotate() call i, which holds the lock, settles in this step: it
\* returns (its record goes on to the replay) or throws (its record is gone)
SettlesWithLock(i) ==
    /\ rotations[i].gotLock
    /\ rotations[i].stage \in {"body", "drain"}
    /\ IF Len(rotations') = Len(rotations)
       THEN rotations'[i].stage = "replay"
       ELSE \A k \in DOMAIN rotations' : rotations'[k] # rotations[i]

\* C27: however rotate() ends after having acquired the rotation lock
\* (destination switched, rotation aborted at the recheck, exception
\* thrown), the lock marker is gone when rotate() settles.
C27_LockReleasedOnEveryExit ==
    [][\A i \in DOMAIN rotations : SettlesWithLock(i) => ~markerExists']_vars

\* a rotate() call that held the lock has thrown and the marker is gone
C27_Witness ==
    /\ failures # <<>>
    /\ rotations = <<>>
    /\ ~otherHolds
    /\ ~markerExists
    /\ pendingWrites # <<>>

\* the files the rotations of the processes have created
MadeByRotation == DOMAIN files \ {SharedFile, EarlierOverflow}
AllRotated == \A p \in Procs : procStage[p] = "done"
StillRoom == \A g \in MadeByRotation : files[g] < maxSizeBytes
OneFileForAll ==
    /\ Cardinality(MadeByRotation) = 1
    /\ \A p \in Procs : procFile[p] \in MadeByRotation
    /\ \A g \in MadeByRotation : getOverflowPattern(g, FirstPeriod, frequency)

C5_CurrentFileKept ==
    FileOfPeriod(currentFilePath,
                 getCurrentRotationPeriod(frequency, hourNow, tz), frequency)
        => currentFilePath \in DOMAIN files

\* the instant now minus D of the run, and "strictly before" it
CutoffOfRun ==
    getCutoffDate(hourNow, subNow, tz, retentionDuration.value,
                  retentionDuration.unit)
StrictlyBeforeCutoff(t) ==
    t < CutoffOfRun.hour \/ (t = CutoffOfRun.hour /\ CutoffOfRun.sub # 0)

FailedLog(f) ==
    \E i \in DOMAIN failures :
        failures[i].dir = "logs" /\ failures[i].name = f
FailedBundle(b) ==
    \E i \in DOMAIN failures :
        failures[i].dir = "archives" /\ failures[i].name = b

\* C37: a failed unlink does not end the retention run: when the run is
\* over, every expired log file and every expired bundle has been deleted
\* except the ones whose own unlink failed.
C37_FailedUnlinkDoesNotStopRun ==
    (rpc = "done" /\ retentionDuration # NoDuration) =>
        /\ \A f \in rdir0.logs :
              OlderThan(parseLogFilename(f, tz), rcutoff) =>
                  (f \notin DOMAIN files \/ FailedLog(f))
        /\ \A b \in rdir0.bundles :
              OlderThan(parseArchiveFilename(b, tz), rcutoff) =>
                  (b \notin DOMAIN archives \/ FailedBundle(b))

\* a run is over in which the unlink of an expired log file failed and
\* another expired file or bundle was deleted
C37_Witness ==
    /\ rpc = "done"
    /\ \E f \in rdir0.logs : FailedLog(f) /\ f \in DOMAIN files
    /\ \/ rdir0.logs \ DOMAIN files # {}
       \/ rdir0.bundles \ DOMAIN archives # {}

\* C12: when no retention duration is configured, neither the retention
\* worker nor the retention scheduler changes anything, whatever the age of
\* the files: the log files and the bundles stay as they were, no lease
\* record is written, no worker is spawned and the worker looks at no file.
C12_NoDurationNoEffect ==
    retentionDuration = NoDuration =>
        /\ DOMAIN files = rdir0.logs
        /\ DOMAIN archives = rdir0.bundles
        /\ lease = NoLease
        /\ \A p \in Procs : wpc[p] = "none"
        /\ rpc \in {"idle", "done"}

\* without a duration both the scheduler and the worker have been called,
\* with a log file and a bundle of earlier months in the directory
C12_Witness ==
    /\ retentionDuration = NoDuration
    /\ rsched = "noop"
    /\ rpc = "done"
    /\ \E f \in DOMAIN files : f[1] < UTCDate(hourNow)[1]
    /\ \E b \in DOMAIN archives : b.period[1] < UTCDate(hourNow)[1]

(***************************************************************************)
(* Claims about the setup                                                  *)
(***************************************************************************)

\* C13: configuration resolution raises an error whenever archiving is
\* enabled and the archive cadence is shorter than the rotation cadence,
\* and whenever a retention duration is given that is shorter than the
\* archive cadence (archiving enabled) or shorter than the rotation cadence:
\* a setup that got past the resolution has none of these.
C13_CadenceOrderEnforced ==
    setup.pc = "started" =>
        LET rotationHours == frequencyToHours(options.rotation)
            archiveHours == frequencyToHours(options.archiveFrequency)
            d == options.duration
        IN  /\ ~(options.archiveEnabled /\ archiveHours < rotationHours)
            /\ (d # NoDuration /\ parseDuration(d)) =>
                 /\ ~(options.archiveEnabled
                        /\ durationToHours(d.value, d.unit) < archiveHours)
                 /\ ~(durationToHours(d.value, d.unit) < rotationHours)

\* C14: when configuration resolution fails, the error is raised before any
\* side effect: no log directory and no log file is created, no file is
\* opened, no lease is acquired and no scheduler is started.
C14_NoSideEffectOnError ==
    setup.pc = "threw" =>
        /\ ~setup.dirExists
        /\ files = EmptyDir
        /\ currentFilePath = <<>>
        /\ lease = NoLease
        /\ \A p \in Procs : spc[p] = "idle" /\ wpc[p] = "none"
        /\ setup.schedulers = {}
        /\ rsched = "off"

\* the resolution failed on a cadence-ordering violation of options that
\* ask for both schedulers
C14_Witness ==
    /\ setup.pc = "threw"
    /\ options.path
    /\ options.archiveEnabled
    /\ options.retentionEnabled
    /\ options.duration # NoDuration
    /\ parseDuration(options.duration)

====
